---- MODULE Spec2Model ----
(***************************************************************************)
(* Model of the birthday-predictor analysis pipeline: transcript parsing   *)
(* (parser.py), wish detection, date-window clustering and target          *)
(* inference (analyzer.py), identity resolution (identity.py) and          *)
(* confidence scoring (confidence.py), with the batch driver of app.py.    *)
(*                                                                         *)
(* Conventions.  A message text is a sequence of whitespace-separated      *)
(* tokens.  Wish scores are integers in twentieths (0.05): 0.8 is 16, 0.1  *)
(* is 2, 0.2 is 4 and 1.0 is 20.  Confidence scores are integers in        *)
(* three-hundredths: 0.3 is 90, 0.2 is 60 and 1.0 is 300.  A Python None   *)
(* is the value None below; a date is a day number, a timestamp a record   *)
(* of a day number and an hour.                                            *)
(***************************************************************************)
EXTENDS Integers, Sequences, FiniteSets, TLC

\* ------------------------------------------------------------------ bounds
\* Longest message text, in tokens, of the wish-detection specification.
MaxLen == 3

\* ------------------------------------------------------------------- state
VARIABLES
    text,              \* wish detection: the message text under analysis
    patterns,          \* BirthdayAnalyzer.patterns
    wish_score,        \* the score of text, NotScored before the analysis
    wish_message,      \* the WishMessage made from text: a sequence of one or none
    stage,             \* position of the batch driver in its pipeline
    chat_id,           \* the chat id save_chat returned
    chat_type,         \* ChatType value of the parsed chat
    messages,          \* the parsed messages of the chat
    participants,      \* the participants of the chat
    wish_messages,     \* the detected WishMessages
    clustering_config, \* BirthdayAnalyzer.clustering_config
    sorted_dates,      \* cluster_wishes_by_date: the candidate dates, ascending
    date_index,        \* position of its outer loop in sorted_dates
    processed_dates,   \* the dates claimed by emitted clusters
    windows,           \* the windows the loop has opened so far
    clusters,          \* the WishClusters emitted so far
    infer_index,       \* position of the driver's loop over the clusters
    all_clusters,      \* the clusters of the files processed so far
    all_participants,  \* the participants of the files processed so far
    identities,        \* the Identity objects resolve_identities returns
    confidence_config, \* the "confidence" section of config.json, as loaded
    score_index,       \* position of score_all_identities in identities
    scored_identities, \* the identities that passed min_threshold
    transcript,        \* the export file: the lines read from it, and whether
                       \* its participants get saved
    explanations,      \* the explanations get_confidence_explanation returned
    uploaded_files,    \* the files of the batch handed to the driver
    file_index,        \* position of the driver's loop in uploaded_files
    processed_files,   \* the per-file outcomes the driver has recorded
    llm_client,        \* the AI collaborator: its availability, what its next
                       \* call does, the parser's limits and the clock
    llm_result,        \* what analyze_birthday_cluster returned: one result or none
    sessions,          \* ProgressTracker._sessions: the session of the issued
                       \* id, a sequence of one dict or of none
    worker,            \* the background thread of process_files_background
    stream,            \* a progress stream reading the session
    whole_states       \* the values of the session after each whole tracker
                       \* operation so far

wishVars == <<text, patterns, wish_score, wish_message>>

chatVars == <<chat_id, chat_type, messages, participants, wish_messages, clustering_config>>

loopVars == <<sorted_dates, date_index, processed_dates, windows, clusters>>

driverVars == <<infer_index, all_clusters, all_participants>>
batchVars == <<uploaded_files, file_index, processed_files>>
llmVars == <<llm_client, llm_result>>
progressVars == <<sessions, worker, stream, whole_states>>
sideVars == <<explanations, batchVars, llmVars, progressVars>>
scoreVars == <<identities, confidence_config, score_index, scored_identities, transcript,
               sideVars>>
vars == <<wishVars, stage, chatVars, loopVars, driverVars, scoreVars>>

\* ----------------------------------------------------------------- helpers
\* None where a string is expected, and where an integer id is expected.
None == "None"
NoId == 0

Min(a, b) == IF a <= b THEN a ELSE b

Max(a, b) == IF a >= b THEN a ELSE b

Range(s) == {s[i] : i \in DOMAIN s}

RECURSIVE SumSeq(_)
SumSeq(s) == IF Len(s) = 0 THEN 0 ELSE Head(s) + SumSeq(Tail(s))

\* All the orders in which the elements of a finite set can be listed.
Orderings(S) ==
    {f \in [1..Cardinality(S) -> S] : \A i, j \in DOMAIN f : i # j => f[i] # f[j]}

\* ----------------------------------------------------------- wish detection
\* The token that stands for the line break inside a message of several lines.
LineBreak == "\n"

\* Tokens that are not made of word characters: emoji and the line break.
Emoji == {":cake:", ":tada:", LineBreak}

\* str.lower() on a token.
Lower(tok) ==
    CASE tok = "HBD" -> "hbd"
      [] tok = "Happy" -> "happy"
      [] tok = "Sarath" -> "sarath"
      [] tok = "Unknown" -> "unknown"
      [] tok = "Family" -> "family"
      [] tok = "Group" -> "group"
      [] OTHER -> tok

LowerText(txt) == [i \in DOMAIN txt |-> Lower(txt[i])]

\* The patterns section of config.json as the analyzer reads it.
FilePatterns ==
    [strong_wishes |-> << <<"happy", "birthday">>, <<"hbd">> >>,
     thanks_patterns |-> << <<"thank", "you">>, <<"thanks">> >>,
     belated |-> << <<"belated">> >>,
     advance |-> << <<"advance">> >>,
     negative_patterns |-> << <<"birthday", "party">> >>,
     weak_signals |-> <<":cake:", ":tada:">>]

\* The patterns the analyzer falls back to when config.json cannot be loaded:
\* every list is empty.
MissingPatterns ==
    [strong_wishes |-> << >>, thanks_patterns |-> << >>, belated |-> << >>,
     advance |-> << >>, negative_patterns |-> << >>, weak_signals |-> << >>]

\* Length of the first alternative of \b(?:p1|p2|...)\b that matches the token
\* sequence at position i, 0 when none does (re.IGNORECASE).
MatchAt(phrases, toks, i) ==
    LET hits == {k \in DOMAIN phrases :
                    /\ i + Len(phrases[k]) - 1 <= Len(toks)
                    /\ \A j \in DOMAIN phrases[k] :
                           Lower(toks[i + j - 1]) = Lower(phrases[k][j])}
    IN IF hits = {} THEN 0
       ELSE Len(phrases[CHOOSE k \in hits : \A m \in hits : k <= m])

RECURSIVE CountMatches(_, _, _)
CountMatches(phrases, toks, i) ==
    IF i > Len(toks) THEN 0
    ELSE LET n == MatchAt(phrases, toks, i)
         IN IF n > 0 THEN 1 + CountMatches(phrases, toks, i + n)
            ELSE CountMatches(phrases, toks, i + 1)

\* The number of phrases of the list that occur in the text, each counted
\* once however often it occurs.
regex_findall_distinct(phrases, toks) ==
    Cardinality({k \in DOMAIN phrases : \E i \in DOMAIN toks :
                    /\ i + Len(phrases[k]) - 1 <= Len(toks)
                    /\ \A j \in DOMAIN phrases[k] :
                           Lower(toks[i + j - 1]) = Lower(phrases[k][j])})

\* len(pattern.findall(text)).  An empty phrase list compiles to \b(?:)\b,
\* which matches the empty string at both ends of every word.
regex_findall(phrases, toks) ==
    IF Len(phrases) = 0
    THEN 2 * Cardinality({i \in DOMAIN toks : toks[i] \notin Emoji})
    ELSE CountMatches(phrases, toks, 1)

\* bool(pattern.search(text)).
regex_search(phrases, toks) ==
    IF Len(phrases) = 0
    THEN \E i \in DOMAIN toks : toks[i] \notin Emoji
    ELSE \E i \in DOMAIN toks : MatchAt(phrases, toks, i) > 0

\* Weights of _calculate_wish_score, in twentieths.
StrongWeight == 16
WeakWeight == 2
MultipleBonus == 4
ShortWords == 3
ScoreCap == 20

cap_score_missing(score) == score

\* return min(score, 1.0)
cap_score(score) == Min(score, ScoreCap)

_calculate_wish_score(p, txt) ==
    IF Len(txt) = 0 THEN 0
    ELSE IF regex_search(p.negative_patterns, LowerText(txt)) THEN 0
    ELSE LET strong_matches == regex_findall(p.strong_wishes, LowerText(txt))
             weak == Cardinality({k \in DOMAIN p.weak_signals :
                                     \E i \in DOMAIN txt : txt[i] = p.weak_signals[k]})
             score == strong_matches * StrongWeight + weak * WeakWeight
                      + (IF strong_matches > 1 THEN MultipleBonus ELSE 0)
             words == SelectSeq(txt, LAMBDA tok : tok # LineBreak)
             penalised == IF Len(words) < ShortWords /\ strong_matches = 0
                          THEN score \div 2 ELSE score
         IN cap_score(penalised)

_is_thanks_message(p, txt) == regex_search(p.thanks_patterns, LowerText(txt))

_extract_modifiers(p, txt) ==
    (IF regex_search(p.belated, LowerText(txt)) THEN {"belated"} ELSE {})
    \cup (IF regex_search(p.advance, LowerText(txt)) THEN {"advance"} ELSE {})

\* Tokens of the form @<10 to 15 digits> and of the form @<word>.
PhoneMentionTokens == {"@5551234567", "@5559876543", "@5550000000"}
NameMentionTokens == {"@ann"}

\* The mention a token @x carries: the digits or the word after the @.
MentionOf(tok) ==
    CASE tok = "@5551234567" -> "5551234567"
      [] tok = "@5559876543" -> "5559876543"
      [] tok = "@5550000000" -> "5550000000"
      [] tok = "@ann" -> "ann"
      [] OTHER -> tok

IsWordToken(tok) == tok \notin Emoji /\ tok \notin PhoneMentionTokens \cup NameMentionTokens

\* One match of name_mention_pattern at token i: <<tokens consumed, name>>, the
\* name being None when the match is a phone mention, and <<0, None>> when the
\* pattern does not match at i.  Names of one character do not occur in the
\* vocabulary.
NameMatchAt(toks, i) ==
    LET lw(j) == IF j <= Len(toks) THEN Lower(toks[j]) ELSE None
        word(j) == j <= Len(toks) /\ IsWordToken(toks[j])
    IN CASE toks[i] \in PhoneMentionTokens -> <<1, None>>
         [] toks[i] \in NameMentionTokens -> <<1, MentionOf(toks[i])>>
         [] lw(i) = "happy" /\ lw(i + 1) = "birthday" /\ word(i + 2) -> <<3, toks[i + 2]>>
         [] lw(i) \in {"hbd", "bday"} /\ word(i + 1) -> <<2, toks[i + 1]>>
         [] lw(i) \in {"to", "for"} /\ word(i + 1) -> <<2, toks[i + 1]>>
         [] OTHER -> <<0, None>>

RECURSIVE NameMatches(_, _)
NameMatches(toks, i) ==
    IF i > Len(toks) THEN {}
    ELSE LET m == NameMatchAt(toks, i)
         IN IF m[1] = 0 THEN NameMatches(toks, i + 1)
            ELSE (IF m[2] = None THEN {} ELSE {m[2]}) \cup NameMatches(toks, i + m[1])

\* The set behind list(set(names)): phone mentions keep their @ prefix.
_extract_mentioned_names(txt) ==
    {txt[i] : i \in {j \in DOMAIN txt : txt[j] \in PhoneMentionTokens}}
    \cup NameMatches(txt, 1)

\* --------------------------------------------------------------- clustering
\* The defaults of clustering_config.get(...): 36 hours, 0.3 in twentieths.
DefaultWindowHours == 36
DefaultMinWishScore == 6
HoursPerDay == 24

\* message_lookup = {msg.id: msg for msg in messages if msg.id}: whether it has
\* the id, and the message it gives for an id it has.
in_lookup(msgs, id) == \E i \in DOMAIN msgs : msgs[i].id = id /\ msgs[i].id # NoId

message_lookup(msgs, id) == msgs[CHOOSE i \in DOMAIN msgs : msgs[i].id = id]

\* message.timestamp.date() of the message a wish refers to.
wish_date(msgs, wish) == message_lookup(msgs, wish.message_id).timestamp.day

\* date_groups[d]: the wishes of date d, in the order of wish_messages.
date_groups(msgs, wishes, d) ==
    SelectSeq(wishes, LAMBDA w : in_lookup(msgs, w.message_id)
                                  /\ wish_date(msgs, w) = d)

\* sorted(S) for a set of day numbers.
RECURSIVE SortedSeq(_)
SortedSeq(S) ==
    IF S = {} THEN << >>
    ELSE LET m == CHOOSE x \in S : \A y \in S : x <= y
         IN <<m>> \o SortedSeq(S \ {m})

\* datetime.combine(d, datetime.min.time()), in hours.
midnight(d) == d * HoursPerDay

window_end_in_minutes(window_start, window_hours) == window_start + window_hours \div 60

\* window_start + timedelta(hours=window_hours)
window_end(window_start, window_hours) == window_start + window_hours

\* window_start <= check_datetime <= window_end
in_window(window_start, window_stop, check_datetime) ==
    window_start <= check_datetime /\ check_datetime <= window_stop

\* The dates the window opened at current_date absorbs.
cluster_dates(dates, current_date, window_hours) ==
    {d \in Range(dates) :
        in_window(midnight(current_date),
                  window_end(midnight(current_date), window_hours), midnight(d))}

\* The wishes of the absorbed dates, date by date in ascending order.
RECURSIVE cluster_wishes(_, _, _, _)
cluster_wishes(msgs, wishes, dates, absorbed) ==
    IF Len(dates) = 0 THEN << >>
    ELSE (IF Head(dates) \in absorbed THEN date_groups(msgs, wishes, Head(dates)) ELSE << >>)
         \o cluster_wishes(msgs, wishes, Tail(dates), absorbed)

total_score(ws) == SumSeq([i \in DOMAIN ws |-> ws[i].wish_score])

\* The dates max(candidate_dates, key=(date_scores, date_counts)) can return:
\* candidate_dates is a set, and max returns the first maximum it meets.
_find_peak_date(msgs, ws, candidate_dates) ==
    LET score(d) == total_score(SelectSeq(ws, LAMBDA w : wish_date(msgs, w) = d))
        count(d) == Len(SelectSeq(ws, LAMBDA w : wish_date(msgs, w) = d))
        better(a, b) == score(a) > score(b) \/ (score(a) = score(b) /\ count(a) > count(b))
    IN {d \in candidate_dates : \A e \in candidate_dates : ~better(e, d)}

_count_unique_wishers(msgs, ws) ==
    Cardinality({message_lookup(msgs, ws[i].message_id).sender : i \in DOMAIN ws})

\* The WishCluster cluster_wishes_by_date builds from the wishes of a window.
WishCluster(chat, peak_date, msgs, ws) ==
    [chat_id |-> chat,
     date |-> peak_date,
     target_participant_id |-> NoId,
     wish_messages |-> ws,
     unique_wishers |-> _count_unique_wishers(msgs, ws),
     total_wish_score |-> total_score(ws),
     has_thanks |-> \E i \in DOMAIN ws : ws[i].is_thanks,
     has_explicit_mentions |-> \E i \in DOMAIN ws : Len(ws[i].mentioned_names) > 0]

keep_processed(processed, absorbed) == processed

\* processed_dates.update(cluster_dates)
update_processed(processed, absorbed) == processed \cup absorbed

\* --------------------------------------------------------- target inference
\* The characters of a display name or of a name mention, lower-cased.
lower_chars(name) ==
    CASE name \in {"Ann", "ann"} -> <<"a", "n", "n">>
      [] name = "Joann" -> <<"j", "o", "a", "n", "n">>
      [] name \in {"Bob", "bob"} -> <<"b", "o", "b">>
      [] name = "Cy" -> <<"c", "y">>
      [] name = "Dee" -> <<"d", "e", "e">>
      [] name \in {"Sarath", "sarath"} -> <<"s", "a", "r", "a", "t", "h">>
      [] name = "you" -> <<"y", "o", "u">>
      [] name = "the" -> <<"t", "h", "e">>
      [] OTHER -> <<name>>

\* The digits of a phone number or of a phone mention: phone.replace('+', '')
\* .replace(' ', '') and mention[1:].
phone_digits(phone) ==
    CASE phone \in {"+15551234567"} -> <<1, 5, 5, 5, 1, 2, 3, 4, 5, 6, 7>>
      [] phone \in {"5551234567", "@5551234567"} -> <<5, 5, 5, 1, 2, 3, 4, 5, 6, 7>>
      [] phone \in {"+15559876543"} -> <<1, 5, 5, 5, 9, 8, 7, 6, 5, 4, 3>>
      [] phone \in {"5559876543", "@5559876543"} -> <<5, 5, 5, 9, 8, 7, 6, 5, 4, 3>>
      [] phone \in {"5550000000", "@5550000000"} -> <<5, 5, 5, 0, 0, 0, 0, 0, 0, 0>>
      [] OTHER -> << >>

\* a in b, for two strings given by their characters.
is_substring(a, b) ==
    \E i \in 0..(Len(b) - Len(a)) : \A j \in 1..Len(a) : b[i + j] = a[j]

\* Counter(items).most_common(1)[0][0]: the most frequent item, the one that
\* was inserted first among the most frequent.
most_common(items) ==
    LET count(x) == Cardinality({i \in DOMAIN items : items[i] = x})
        first(x) == CHOOSE i \in DOMAIN items :
                        items[i] = x /\ \A j \in DOMAIN items : items[j] = x => i <= j
    IN CHOOSE x \in Range(items) :
           \A y \in Range(items) :
               count(x) > count(y) \/ (count(x) = count(y) /\ first(x) <= first(y))

\* The mentions of the wishes of a cluster, wish by wish, in list order.
RECURSIVE all_mentions(_)
all_mentions(ws) ==
    IF Len(ws) = 0 THEN << >> ELSE Head(ws).mentioned_names \o all_mentions(Tail(ws))

\* mention.startswith('@') and mention[1:].isdigit()
is_phone_mention(mention) == mention \in PhoneMentionTokens

phone_mentions(c) == SelectSeq(all_mentions(c.wish_messages), is_phone_mention)

name_mentions(c) ==
    SelectSeq(all_mentions(c.wish_messages), LAMBDA m : ~is_phone_mention(m))

\* Index of the first participant that matches, 0 when there is none; matches
\* tells of each participant whether it does.
first_participant(matches) ==
    IF \E i \in DOMAIN matches : matches[i]
    THEN CHOOSE i \in DOMAIN matches : matches[i] /\ \A j \in 1..(i - 1) : ~matches[j]
    ELSE 0

\* participant_lookup = {p.display_name: p for p in participants}: a later
\* participant of the same display name replaces an earlier one.
participant_lookup(parts, name) ==
    IF \E i \in DOMAIN parts : parts[i].display_name = name
    THEN CHOOSE i \in DOMAIN parts :
             parts[i].display_name = name
             /\ \A j \in DOMAIN parts : parts[j].display_name = name => j <= i
    ELSE 0

thanks_senders_unrecorded(c, msgs) == {}

\* The senders of the thanks-type wishes of a cluster.
thanks_senders(c, msgs) ==
    {message_lookup(msgs, c.wish_messages[i].message_id).sender :
        i \in {j \in DOMAIN c.wish_messages :
                  c.wish_messages[j].is_thanks /\ in_lookup(msgs, c.wish_messages[j].message_id)}}

\* The senders of the other wishes of a cluster.
wishers(c, msgs) ==
    {message_lookup(msgs, c.wish_messages[i].message_id).sender :
        i \in {j \in DOMAIN c.wish_messages :
                  ~c.wish_messages[j].is_thanks /\ in_lookup(msgs, c.wish_messages[j].message_id)}}

non_wishers(c, parts, msgs) == {parts[i].display_name : i \in DOMAIN parts} \ wishers(c, msgs)

_infer_target_direct_chat(c, parts, msgs) ==
    LET by_thanks ==
            IF Cardinality(thanks_senders(c, msgs)) = 1
            THEN first_participant([i \in DOMAIN parts |->
                                       parts[i].display_name \in thanks_senders(c, msgs)])
            ELSE 0
        by_elimination ==
            IF Cardinality(non_wishers(c, parts, msgs)) = 1
            THEN first_participant([i \in DOMAIN parts |->
                                       parts[i].display_name \in non_wishers(c, parts, msgs)])
            ELSE 0
    IN IF by_thanks # 0 THEN parts[by_thanks].id
       ELSE IF by_elimination # 0 THEN parts[by_elimination].id
       ELSE NoId

phone_strategy_skipped(c, parts) == 0

\* Strategy 1: the first participant whose phone contains the most mentioned
\* phone, 0 when there is none.
phone_strategy(c, parts) ==
    IF Len(phone_mentions(c)) > 0
    THEN first_participant([i \in DOMAIN parts |->
             /\ parts[i].phone # None
             /\ is_substring(phone_digits(most_common(phone_mentions(c))),
                             phone_digits(parts[i].phone))])
    ELSE 0

\* Strategy 2: the first participant whose display name contains the most
\* mentioned name.
name_strategy(c, parts) ==
    IF Len(name_mentions(c)) > 0
    THEN first_participant([i \in DOMAIN parts |->
             /\ parts[i].display_name # None
             /\ is_substring(lower_chars(most_common(name_mentions(c))),
                             lower_chars(parts[i].display_name))])
    ELSE 0

\* Strategy 3: the participant who is the one sender of thanks.
thanks_strategy(c, parts, msgs) ==
    IF Cardinality(thanks_senders(c, msgs)) = 1
    THEN participant_lookup(parts, CHOOSE n \in thanks_senders(c, msgs) : TRUE)
    ELSE 0

\* Strategy 4: the one participant who sent no wish.
elimination_strategy(c, parts, msgs) ==
    IF Cardinality(non_wishers(c, parts, msgs)) = 1
    THEN participant_lookup(parts, CHOOSE n \in non_wishers(c, parts, msgs) : TRUE)
    ELSE 0

_infer_target_group_chat(c, parts, msgs) ==
    IF phone_strategy(c, parts) # 0 THEN parts[phone_strategy(c, parts)].id
    ELSE IF name_strategy(c, parts) # 0 THEN parts[name_strategy(c, parts)].id
    ELSE IF thanks_strategy(c, parts, msgs) # 0 THEN parts[thanks_strategy(c, parts, msgs)].id
    ELSE IF elimination_strategy(c, parts, msgs) # 0
         THEN parts[elimination_strategy(c, parts, msgs)].id
    ELSE NoId

infer_birthday_target(c, parts, msgs, type) ==
    IF type = "direct" THEN _infer_target_direct_chat(c, parts, msgs)
    ELSE _infer_target_group_chat(c, parts, msgs)

\* The cluster date left as the clustering chose it.
date_unadjusted(c) == c.date

\* The date adjusted by the timing modifiers of the majority of the wishes.
adjust_birthday_date(c) ==
    LET total_wishes == Len(c.wish_messages)
        belated_count == Cardinality({i \in DOMAIN c.wish_messages :
                                         "belated" \in c.wish_messages[i].modifiers})
        advance_count == Cardinality({i \in DOMAIN c.wish_messages :
                                         "advance" \in c.wish_messages[i].modifiers})
    IN IF 2 * belated_count > total_wishes THEN c.date - 1
       ELSE IF 2 * advance_count > total_wishes THEN c.date + 1
       ELSE c.date

\* ------------------------------------------------------------------ dates
\* A date is the number of days from the first of January of EpochYear.
EpochYear == 2023

is_leap(y) == (y % 4 = 0 /\ y % 100 # 0) \/ y % 400 = 0

days_in_year(y) == IF is_leap(y) THEN 366 ELSE 365

days_in_month(y, m) ==
    IF m = 2 THEN (IF is_leap(y) THEN 29 ELSE 28)
    ELSE IF m \in {4, 6, 9, 11} THEN 30 ELSE 31

valid_date_unchecked(y, m, d) == TRUE

\* datetime.date(y, m, d) raises ValueError unless this holds.
valid_date(y, m, d) == m \in 1..12 /\ d >= 1 /\ d <= days_in_month(y, m)

\* The leap years before the year y, counted from the year 1.
leap_years_before(y) == (y - 1) \div 4 - (y - 1) \div 100 + (y - 1) \div 400

\* The days from the first of January of EpochYear to that of the year y;
\* negative for the years before EpochYear.
days_before_year(y) ==
    365 * (y - EpochYear) + leap_years_before(y) - leap_years_before(EpochYear)

RECURSIVE days_before_month(_, _)
days_before_month(y, m) ==
    IF m = 1 THEN 0 ELSE days_before_month(y, m - 1) + days_in_month(y, m - 1)

\* The day number of date(y, m, d).
day_number(y, m, d) == days_before_year(y) + days_before_month(y, m) + d - 1

RECURSIVE year_of_from(_, _)
year_of_from(n, y) ==
    IF n < days_before_year(y) THEN year_of_from(n, y - 1)
    ELSE IF n >= days_before_year(y + 1) THEN year_of_from(n, y + 1)
    ELSE y

\* date.year, date.month and date.day of a day number.
year_of(n) == year_of_from(n, EpochYear + n \div 366)

\* The (month, day) of the day that comes rest days after the first of month m.
RECURSIVE month_day_from(_, _, _)
month_day_from(y, m, rest) ==
    IF rest < days_in_month(y, m) THEN <<m, rest + 1>>
    ELSE month_day_from(y, m + 1, rest - days_in_month(y, m))

month_day_of(n) == LET y == year_of(n) IN month_day_from(y, 1, n - days_before_year(y))

\* ---------------------------------------------------- identity resolution
\* participant_lookup = {p.id: p for p in all_participants if p.id}; 0 when
\* the id is not a key.
participant_by_id(parts, id) ==
    IF id # NoId /\ \E i \in DOMAIN parts : parts[i].id = id
    THEN CHOOSE i \in DOMAIN parts :
             parts[i].id = id /\ \A j \in DOMAIN parts : parts[j].id = id => j <= i
    ELSE 0

_get_identity_key_by_name(participant, parts) ==
    [kind |-> "name", name |-> participant.display_name, chat_id |-> 0, id |-> NoId]

\* The identity key of a participant: "phone:<phone>", "name:<display_name>",
\* "name_chat:<display_name>:<chat_id>" or "participant:<chat_id>:<id>".
_get_identity_key(participant, parts) ==
    LET phones_for_name ==
            {parts[i].phone : i \in {j \in DOMAIN parts :
                /\ parts[j].display_name = participant.display_name
                /\ parts[j].chat_id # participant.chat_id
                /\ parts[j].phone # None}}
    IN IF participant.phone # None
       THEN [kind |-> "phone", name |-> participant.phone, chat_id |-> 0, id |-> NoId]
       ELSE IF participant.display_name # None
       THEN IF Cardinality(phones_for_name) > 1
            THEN [kind |-> "name_chat", name |-> participant.display_name,
                  chat_id |-> participant.chat_id, id |-> NoId]
            ELSE [kind |-> "name", name |-> participant.display_name,
                  chat_id |-> 0, id |-> NoId]
       ELSE [kind |-> "participant", name |-> None,
             chat_id |-> participant.chat_id, id |-> participant.id]

\* The observations of the clusters that have a target and a date, in the
\* order of the clusters, each with its identity key.
RECURSIVE observations_of(_, _)
observations_of(cs, parts) ==
    IF Len(cs) = 0 THEN << >>
    ELSE LET cluster == Head(cs)
             p == participant_by_id(parts, cluster.target_participant_id)
         IN IF cluster.target_participant_id = NoId \/ p = 0
            THEN observations_of(Tail(cs), parts)
            ELSE <<[key |-> _get_identity_key(parts[p], parts),
                    cluster |-> cluster,
                    participant |-> parts[p],
                    date |-> cluster.date,
                    year |-> year_of(cluster.date),
                    month_day |-> month_day_of(cluster.date)]>>
                 \o observations_of(Tail(cs), parts)

\* The keys of a dict filled in the order of items.
RECURSIVE keys_in_order(_)
keys_in_order(items) ==
    IF Len(items) = 0 THEN << >>
    ELSE LET front == keys_in_order(SubSeq(items, 1, Len(items) - 1))
             last == items[Len(items)]
         IN IF last \in Range(front) THEN front ELSE Append(front, last)

\* identity_observations: the keys in the order of their first observation,
\* and the observations of a key.
_group_observations_by_identity(cs, parts) ==
    LET obs == observations_of(cs, parts)
    IN [keys |-> keys_in_order([i \in DOMAIN obs |-> obs[i].key]),
        observations |-> obs]

observations_for(grouped, key) == SelectSeq(grouped.observations, LAMBDA o : o.key = key)

\* The year _are_dates_adjacent builds its two dates in.
ReferenceYear == 2023

\* Whether two (month, day) pairs are at most a day apart in ReferenceYear; a
\* pair that is no date of that year makes Date raise, which returns False.
_are_dates_adjacent(date1, date2) ==
    IF valid_date(ReferenceYear, date1[1], date1[2]) /\ valid_date(ReferenceYear, date2[1], date2[2])
    THEN LET delta == day_number(ReferenceYear, date2[1], date2[2])
                      - day_number(ReferenceYear, date1[1], date1[2])
         IN (IF delta < 0 THEN -delta ELSE delta) <= 1
    ELSE FALSE

leap_patterns == {<<<<2, 28>>, <<2, 29>>>>, <<<<2, 29>>, <<3, 1>>>>, <<<<2, 28>>, <<3, 1>>>>}

_is_leap_year_pattern(date1, date2) ==
    <<date1, date2>> \in leap_patterns \/ <<date2, date1>> \in leap_patterns

\* The (month, day) of an identity, from the month_day of its observations.
_determine_birthday(observations) ==
    LET month_days == [i \in DOMAIN observations |-> observations[i].month_day]
        primary_date == most_common(month_days)
        others == SelectSeq(month_days, LAMBDA md : md # primary_date)
    IN IF Len(others) = 0 THEN primary_date
       ELSE LET secondary_date == most_common(others)
            IN IF _are_dates_adjacent(primary_date, secondary_date) THEN primary_date
               ELSE IF /\ _is_leap_year_pattern(primary_date, secondary_date)
                       /\ (primary_date = <<2, 29>> \/ secondary_date = <<2, 29>>)
                    THEN <<2, 29>>
               ELSE primary_date

_determine_canonical_name(observations) ==
    LET names == SelectSeq([i \in DOMAIN observations |-> observations[i].participant.display_name],
                           LAMBDA n : n # None)
    IN IF Len(names) > 0 THEN most_common(names)
       ELSE IF observations[1].participant.phone # None THEN observations[1].participant.phone
       ELSE "Participant"

_determine_phone(observations) ==
    LET phones == SelectSeq([i \in DOMAIN observations |-> observations[i].participant.phone],
                            LAMBDA p : p # None)
    IN IF Len(phones) > 0 THEN most_common(phones) ELSE None

\* max(observations, key=(unique_wishers, total_wish_score)): the first of the
\* best observations.
best_observation(observations) ==
    LET better(a, b) ==
            \/ a.cluster.unique_wishers > b.cluster.unique_wishers
            \/ /\ a.cluster.unique_wishers = b.cluster.unique_wishers
               /\ a.cluster.total_wish_score > b.cluster.total_wish_score
    IN observations[CHOOSE i \in DOMAIN observations :
           /\ \A j \in DOMAIN observations : ~better(observations[j], observations[i])
           /\ \A j \in 1..(i - 1) : better(observations[i], observations[j])]

_create_evidence_summary(observations) ==
    [total_observations |-> Len(observations),
     years |-> SortedSeq({observations[i].year : i \in DOMAIN observations}),
     chats |-> Cardinality({observations[i].participant.chat_id : i \in DOMAIN observations}),
     total_wishers |-> SumSeq([i \in DOMAIN observations |-> observations[i].cluster.unique_wishers]),
     has_explicit_mentions |->
         \E i \in DOMAIN observations : observations[i].cluster.has_explicit_mentions,
     has_thanks_messages |-> \E i \in DOMAIN observations : observations[i].cluster.has_thanks,
     date_consistency |->
         Cardinality({observations[i].month_day : i \in DOMAIN observations}) = 1,
     best_cluster |->
         LET best_cluster == best_observation(observations)
         IN [date |-> best_cluster.date,
             wishers |-> best_cluster.cluster.unique_wishers,
             score |-> best_cluster.cluster.total_wish_score,
             has_mentions |-> best_cluster.cluster.has_explicit_mentions,
             has_thanks |-> best_cluster.cluster.has_thanks]]

\* The Identity of the observations of a key (there is at least one).
_create_identity_from_observations(identity_key, observations) ==
    LET birthday == _determine_birthday(observations)
    IN
    [canonical_name |-> _determine_canonical_name(observations),
     phone |-> _determine_phone(observations),
     birthday_month |-> birthday[1],
     birthday_day |-> birthday[2],
     years_observed |-> Cardinality({observations[i].year : i \in DOMAIN observations}),
     total_wishers |-> SumSeq([i \in DOMAIN observations |-> observations[i].cluster.unique_wishers]),
     evidence_summary |-> _create_evidence_summary(observations),
     confidence |-> 0]

\* The identities of the clusters, one per identity key, in the order of the
\* first observation of each key.
resolve_identities(cs, parts) ==
    LET grouped == _group_observations_by_identity(cs, parts)
    IN [k \in DOMAIN grouped.keys |->
           _create_identity_from_observations(grouped.keys[k],
                                              observations_for(grouped, grouped.keys[k]))]

\* ------------------------------------------------------ confidence scoring
\* Confidences are counted in 1/300: 1.0 is 300, 0.05 is 15, 0.2 / 3 is 20.
One == 300
DefaultBaseScore == 90
DefaultMultiYearBonus == 60
DefaultUniqueWishersBonus == 60
DefaultExplicitMentionBonus == 30
DefaultThanksBonus == 45
DefaultConflictingDatesPenalty == -60
DefaultMinThreshold == 180
PhoneBonus == 15
MultiChatPhoneBonus == 15
ConsistencyBonus == 30
LowEvidencePenalty == -30
InferencePenalty == -45
YearCap == 3

\* self.confidence_config.get(key, default)
config_get(config, key, default) == IF key \in DOMAIN config THEN config[key] ELSE default

year_factor_flat(years_observed) == YearCap

\* min(years_observed - 1, 3), the numerator of year_factor.
year_factor(years_observed) == Min(years_observed - 1, YearCap)

_calculate_phone_confidence_bonus(identity) ==
    IF identity.phone = None THEN 0
    ELSE PhoneBonus + (IF identity.evidence_summary.chats > 1 THEN MultiChatPhoneBonus ELSE 0)

_apply_penalties(config, confidence, identity) ==
    LET evidence == identity.evidence_summary
    IN confidence
       + (IF ~evidence.date_consistency
          THEN config_get(config, "conflicting_dates_penalty", DefaultConflictingDatesPenalty)
          ELSE 0)
       + (IF identity.years_observed = 1 /\ identity.total_wishers < 3
          THEN LowEvidencePenalty ELSE 0)
       + (IF /\ ~evidence.has_explicit_mentions
             /\ ~evidence.has_thanks_messages
             /\ evidence.chats > 0
             /\ ~evidence.best_cluster.has_mentions
             /\ ~evidence.best_cluster.has_thanks
          THEN InferencePenalty ELSE 0)

clamp_missing(confidence) == confidence

\* max(0.0, min(1.0, confidence))
clamp(confidence) == Max(0, Min(One, confidence))

calculate_confidence(config, identity) ==
    LET evidence == identity.evidence_summary
        unique_wishers_bonus == config_get(config, "unique_wishers_bonus", DefaultUniqueWishersBonus)
        bonuses ==
            config_get(config, "base_score", DefaultBaseScore)
            + (IF identity.years_observed > 1
               THEN (config_get(config, "multi_year_bonus", DefaultMultiYearBonus)
                     * year_factor(identity.years_observed)) \div YearCap
               ELSE 0)
            + (IF identity.total_wishers >= 5 THEN unique_wishers_bonus
               ELSE IF identity.total_wishers >= 3 THEN unique_wishers_bonus \div 2
               ELSE 0)
            + (IF evidence.has_explicit_mentions
               THEN config_get(config, "explicit_mention_bonus", DefaultExplicitMentionBonus)
               ELSE 0)
            + (IF evidence.has_thanks_messages
               THEN config_get(config, "thanks_bonus", DefaultThanksBonus)
               ELSE 0)
            + _calculate_phone_confidence_bonus(identity)
            + (IF evidence.date_consistency THEN ConsistencyBonus ELSE 0)
    IN clamp(_apply_penalties(config, bonuses, identity))

sort_skipped(ids) == ids

\* One entry of the 'bonuses' or 'penalties' list of an explanation.
explanation_entry(type, value, reason) == [type |-> type, value |-> value, reason |-> reason]

get_confidence_explanation(config, identity) ==
    LET evidence == identity.evidence_summary
        unique_wishers_bonus == config_get(config, "unique_wishers_bonus", DefaultUniqueWishersBonus)
        phone_bonus == _calculate_phone_confidence_bonus(identity)
        bonuses ==
            (IF identity.years_observed > 1
             THEN <<explanation_entry("multi_year",
                        (config_get(config, "multi_year_bonus", DefaultMultiYearBonus)
                         * year_factor(identity.years_observed)) \div YearCap,
                        <<identity.years_observed, "years observed">>)>>
             ELSE << >>)
            \o (IF identity.total_wishers >= 5
                THEN <<explanation_entry("high_wishers", unique_wishers_bonus,
                           <<identity.total_wishers, "total wishers">>)>>
                ELSE IF identity.total_wishers >= 3
                THEN <<explanation_entry("medium_wishers", unique_wishers_bonus \div 2,
                           <<identity.total_wishers, "total wishers">>)>>
                ELSE << >>)
            \o (IF evidence.has_explicit_mentions
                THEN <<explanation_entry("explicit_mentions",
                           config_get(config, "explicit_mention_bonus", DefaultExplicitMentionBonus),
                           <<"Has explicit name mentions">>)>>
                ELSE << >>)
            \o (IF evidence.has_thanks_messages
                THEN <<explanation_entry("thanks_messages",
                           config_get(config, "thanks_bonus", DefaultThanksBonus),
                           <<"Has thank you messages">>)>>
                ELSE << >>)
            \o (IF identity.phone # None /\ phone_bonus > 0
                THEN <<explanation_entry("phone_number", phone_bonus, <<"Phone number available">>)>>
                ELSE << >>)
            \o (IF evidence.date_consistency
                THEN <<explanation_entry("date_consistency", ConsistencyBonus,
                           <<"Consistent dates across observations">>)>>
                ELSE << >>)
        penalties ==
            (IF ~evidence.date_consistency
             THEN <<explanation_entry("date_inconsistency",
                        config_get(config, "conflicting_dates_penalty", DefaultConflictingDatesPenalty),
                        <<"Conflicting dates found">>)>>
             ELSE << >>)
            \o (IF identity.years_observed = 1 /\ identity.total_wishers < 3
                THEN <<explanation_entry("low_evidence", LowEvidencePenalty,
                           <<"Limited evidence (single year, few wishers)">>)>>
                ELSE << >>)
    IN [final_score |-> identity.confidence,
        base_score |-> config_get(config, "base_score", DefaultBaseScore),
        bonuses |-> bonuses,
        penalties |-> penalties,
        evidence_summary |-> evidence]

\* scored_identities.sort(key=confidence, reverse=True): a stable sort, the
\* identities of equal confidence keep their order.
RECURSIVE sort_by_confidence(_)
sort_by_confidence(ids) ==
    IF Len(ids) = 0 THEN << >>
    ELSE LET first == CHOOSE i \in DOMAIN ids :
                          /\ \A j \in DOMAIN ids : ids[j].confidence <= ids[i].confidence
                          /\ \A j \in 1..(i - 1) : ids[j].confidence < ids[i].confidence
         IN <<ids[first]>>
            \o sort_by_confidence(SubSeq(ids, 1, first - 1) \o SubSeq(ids, first + 1, Len(ids)))

\* ----------------------------------------------------- the AI collaborator
\* A value of the JSON object the collaborator replies with: null, an integer
\* or a string.  The date of a cluster is carried the same way.
json_null == [type |-> "null", int |-> 0, str |-> ""]
json_int(n) == [type |-> "int", int |-> n, str |-> ""]
json_str(s) == [type |-> "str", int |-> 0, str |-> s]
date_value(d) == [type |-> "date", int |-> d, str |-> ""]

\* 'not value': null, 0 and the empty string are false.
falsy(value) ==
    \/ value.type = "null"
    \/ value.type = "int" /\ value.int = 0
    \/ value.type = "str" /\ value.str = ""

\* int(s) of a string: the number it spells, NoNumber when int() raises.
NoNumber == -1
int_of_string(s) ==
    CASE s = "85" -> 85
      [] s = "1990" -> 1990
      [] OTHER -> NoNumber

\* datetime.strptime(s, '%m-%d').strftime('%m-%d'), "" when strptime raises.
reformat_month_day(s) ==
    CASE s = "8-1" -> "08-01"
      [] s = "08-01" -> "08-01"
      [] OTHER -> ""

\* len(date) == 5 and date[2] == '-'
month_day_shaped(s) == s \in {"08-01", "13-45"}

_validate_date(date, cluster_date) ==
    IF falsy(date) THEN date_value(cluster_date)
    ELSE IF date.type # "str" THEN date_value(cluster_date)
    ELSE IF month_day_shaped(date.str) THEN date
    ELSE IF reformat_month_day(date.str) # "" THEN json_str(reformat_month_day(date.str))
    ELSE date_value(cluster_date)

\* The validators that call a string method on their argument raise
\* AttributeError when the collaborator sent a number: "raises" stands for it.
_validate_person(person) ==
    IF falsy(person) THEN None
    ELSE IF person.type # "str" THEN "raises"
    ELSE IF Lower(person.str) \in {"null", "none", "unknown"} THEN None
    ELSE person.str

\* A word of a text that holds a digit.
has_digit(word) == word \in {"+15551234567", "+15559876543", "85", "1990", "call2"}

_validate_phone(phone) ==
    IF falsy(phone) THEN None
    ELSE IF phone.type # "str" THEN "raises"
    ELSE IF Lower(phone.str) \in {"null", "none"} THEN None
    ELSE IF has_digit(phone.str) THEN phone.str
    ELSE None

DefaultMaxMessages == 10
LowestConfidence == 0
HighestConfidence == 100
DefaultLLMConfidence == 50
FallbackConfidence == 40

_validate_confidence(confidence) ==
    IF falsy(confidence) THEN DefaultLLMConfidence
    ELSE IF confidence.type = "int"
    THEN Max(LowestConfidence, Min(HighestConfidence, confidence.int))
    ELSE IF int_of_string(confidence.str) # NoNumber
    THEN Max(LowestConfidence, Min(HighestConfidence, int_of_string(confidence.str)))
    ELSE DefaultLLMConfidence

EarliestYear == 1900
LatestYear == 2024

\* The validated year: a sequence of one year, or of none for None.
_validate_year(year) ==
    LET y == IF year.type = "int" THEN year.int ELSE int_of_string(year.str)
    IN IF falsy(year) \/ (year.type = "str" /\ Lower(year.str) \in {"null", "none"}) THEN << >>
       ELSE IF y # NoNumber /\ EarliestYear <= y /\ y <= LatestYear THEN <<y>>
       ELSE << >>

\* A word with more than two characters, all letters, the first in upper case.
is_capitalised_word(word) == word \in {"Ann", "Bob", "Happy", "HBD", "Sarath", "Joann"}

\* A word of at least ten characters that holds a digit.
is_long_number(word) == word \in {"+15551234567", "+15559876543"}

\* The first word of a text that a test accepts, "" when there is none.
first_word(txt, accepted) ==
    IF \E i \in DOMAIN txt : accepted[i]
    THEN txt[CHOOSE i \in DOMAIN txt : accepted[i] /\ \A j \in 1..(i - 1) : ~accepted[j]]
    ELSE ""

\* The loop over the messages that keeps the first capitalised word it meets.
RECURSIVE fallback_person(_)
fallback_person(msgs) ==
    IF Len(msgs) = 0 THEN None
    ELSE LET word == first_word(Head(msgs).text,
                         [i \in DOMAIN Head(msgs).text |-> is_capitalised_word(Head(msgs).text[i])])
         IN IF word # "" THEN word ELSE fallback_person(Tail(msgs))

\* The loop over the messages that assigns phone_number at every message
\* holding a long number: the last such message decides.
RECURSIVE fallback_phone(_)
fallback_phone(msgs) ==
    IF Len(msgs) = 0 THEN None
    ELSE LET last == msgs[Len(msgs)]
             word == first_word(last.text,
                         [i \in DOMAIN last.text |-> is_long_number(last.text[i])])
         IN IF word # "" THEN word ELSE fallback_phone(SubSeq(msgs, 1, Len(msgs) - 1))

_fallback_analysis(cluster, msgs, now) ==
    [date |-> date_value(cluster.date),
     person |-> fallback_person(msgs),
     phone_number |-> fallback_phone(msgs),
     confidence |-> FallbackConfidence,
     year |-> << >>,
     analysis |-> json_str("Fallback analysis (LLM not available)"),
     source |-> "fallback",
     message_count |-> Len(msgs),
     timestamp |-> now]

validation_unchecked(object) == FALSE

\* A validator raises while validated_result is built: the except clause of
\* _parse_llm_response takes over.
validation_raises(object) ==
    \/ _validate_person(object.person) = "raises"
    \/ _validate_phone(object.phone_number) = "raises"

\* The reply of the collaborator is a text: one without braces ("no_json"),
\* one whose braces do not hold JSON ("bad_json"), or one holding the object
\* reply.object.  result.get('analysis', ...) is null when the key is absent.
_parse_llm_response(reply, cluster, msgs, now) ==
    IF reply.kind # "object" THEN _fallback_analysis(cluster, msgs, now)
    ELSE IF validation_raises(reply.object) THEN _fallback_analysis(cluster, msgs, now)
    ELSE [date |-> _validate_date(reply.object.date, cluster.date),
          person |-> _validate_person(reply.object.person),
          phone_number |-> _validate_phone(reply.object.phone_number),
          confidence |-> _validate_confidence(reply.object.confidence),
          year |-> _validate_year(reply.object.year),
          analysis |-> reply.object.analysis,
          source |-> "llm",
          message_count |-> Len(msgs),
          timestamp |-> now]

\* The lists _select_messages_for_analysis can return: the messages when they
\* are at most max_messages, otherwise max_messages of them, picked by a
\* score of their texts (any choice of max_messages messages stands for it).
_select_messages_for_analysis(msgs, max_messages) ==
    IF Len(msgs) <= max_messages THEN {msgs}
    ELSE {[k \in 1..max_messages |-> msgs[order[k]]] : order \in Orderings(DOMAIN msgs)}

\* The results analyze_birthday_cluster can return.  The except clause around
\* the call of the collaborator turns a raising call into the fallback.
analyze_birthday_cluster(client, cluster, msgs) ==
    IF ~client.available THEN {_fallback_analysis(cluster, msgs, client.now)}
    ELSE {IF Len(selected) = 0 \/ client.reply.kind = "raises"
          THEN _fallback_analysis(cluster, msgs, client.now)
          ELSE _parse_llm_response(client.reply, cluster, msgs, client.now) :
              selected \in _select_messages_for_analysis(msgs, client.max_messages_per_request)}

\* ---------------------------------------------------------------- parsing
\* A line of an export file is a header line, "<m>/<d>/<yy>, <h>:00 <AM|PM> -
\* <sender>: <text>", or a line that no pattern matches: [header |-> FALSE,
\* text |-> ...].  The fallback_us pattern reads the date as month/day/year.
TwoDigitPivot == 30

\* The year of a two-digit year: 00-30 are 2000-2030, 31-99 are 1931-1999.
full_year(yy) == IF yy <= TwoDigitPivot THEN 2000 + yy ELSE 1900 + yy

\* The hour of datetime.strptime(..., "%I:%M %p").
hour_24(hour, ampm) == (hour % 12) + (IF ampm = "PM" THEN 12 ELSE 0)

\* date_str.replace('/yy', '/20yy') rewrites every "/yy" of the date: a day
\* written with the two digits of the year is rewritten as well, and the date
\* no longer has the form month/day/year.  Days are written without a
\* leading zero.
day_rewritten(line) == line.day = line.year /\ line.day >= 10

\* The timestamp of a header line, << >> when strptime raises ValueError for
\* the format of the dialect and for every fallback format.
_parse_datetime_flexible(line) ==
    IF /\ valid_date(full_year(line.year), line.month, line.day)
       /\ line.hour \in 1..12
       /\ ~day_rewritten(line)
    THEN <<[day |-> day_number(full_year(line.year), line.month, line.day),
            hour |-> hour_24(line.hour, line.ampm)]>>
    ELSE << >>

\* Substrings that make a text a media or a system message.
_classify_message_type(txt) ==
    IF \E i \in DOMAIN txt : Lower(txt[i]) \in {"omitted", "<media", "omitted>"} THEN "media_omitted"
    ELSE IF \E i \in DOMAIN txt : Lower(txt[i]) \in {"left", "added", "created"} THEN "system"
    ELSE "normal"

\* The message of a line, << >> when the line is no message of its own.
_parse_single_message(line) ==
    IF line.header /\ Len(_parse_datetime_flexible(line)) > 0
    THEN <<[id |-> NoId,
            timestamp |-> _parse_datetime_flexible(line)[1],
            sender |-> line.sender,
            text |-> line.text,
            message_type |-> _classify_message_type(line.text)]>>
    ELSE << >>

\* A continuation line that adds nothing to the message before it.
line_dropped(line) == << >>

\* The line as it stands in the file: a header line that gave no message is
\* appended whole, its date, its time and its sender included.
original_line(line) ==
    IF line.header THEN <<"<date>", "<time>", "-", line.sender>> \o line.text ELSE line.text

\* The messages of the lines: a line that is no message continues the message
\* before it, and is dropped when there is none.
RECURSIVE _parse_messages(_, _)
_parse_messages(lines, parsed) ==
    IF Len(lines) = 0 THEN parsed
    ELSE LET message == _parse_single_message(Head(lines))
         IN IF Len(message) > 0 THEN _parse_messages(Tail(lines), parsed \o message)
            ELSE IF Len(parsed) > 0
            THEN _parse_messages(Tail(lines),
                     [parsed EXCEPT ![Len(parsed)].text = @ \o <<LineBreak>> \o original_line(Head(lines))])
            ELSE _parse_messages(Tail(lines), parsed)

EarlyLines == 50

\* The words of a file name that make the chat a group chat.
GroupKeywords == {"group", "grupo", "groupe"}

\* any(keyword in line.lower() for keyword in ['created group', 'group subject'])
has_group_creation(line) ==
    LET toks == <<line.sender>> \o line.text
    IN \E i \in DOMAIN toks :
          /\ i + 1 <= Len(toks)
          /\ <<Lower(toks[i]), Lower(toks[i + 1])>> \in {<<"created", "group">>, <<"group", "subject">>}

\* The chat type _extract_chat_info infers: GROUP from a keyword in the file
\* name, then GROUP from a system message of the first lines that tells of
\* the creation of a group, and last of all the number of the senders of the
\* first lines, which replaces what the two steps before have found.
_extract_chat_info(file_name, lines) ==
    LET by_name == IF \E i \in DOMAIN file_name : Lower(file_name[i]) \in GroupKeywords
                   THEN "group" ELSE "unknown"
        early == SubSeq(lines, 1, Min(Len(lines), EarlyLines))
        parsed == {j \in DOMAIN early : Len(_parse_single_message(early[j])) > 0}
        unique_senders ==
            {_parse_single_message(early[i])[1].sender :
                i \in {j \in parsed : _parse_single_message(early[j])[1].message_type # "system"}}
        by_creation ==
            IF \E i \in parsed :
                  /\ _parse_single_message(early[i])[1].message_type = "system"
                  /\ has_group_creation(early[i])
            THEN "group" ELSE by_name
    IN IF Cardinality(unique_senders) > 2 THEN "group"
       ELSE IF Cardinality(unique_senders) = 2 THEN "direct"
       ELSE by_creation

\* The participants of the messages, in the order of their first appearance:
\* the senders (display names without a phone), and the phones mentioned in
\* the texts.
_extract_participants(msgs) ==
    LET entries(m) ==
            <<[display_name |-> m.sender, phone |-> None]>>
            \o [i \in DOMAIN SelectSeq(m.text, is_phone_mention) |->
                   [display_name |-> MentionOf(SelectSeq(m.text, is_phone_mention)[i]),
                    phone |-> MentionOf(SelectSeq(m.text, is_phone_mention)[i])]]
        RECURSIVE all_entries(_)
        all_entries(ms) == IF Len(ms) = 0 THEN << >> ELSE entries(Head(ms)) \o all_entries(Tail(ms))
        found == keys_in_order(all_entries(msgs))
    IN [i \in DOMAIN found |->
           [id |-> NoId, chat_id |-> NoId, display_name |-> found[i].display_name,
            phone |-> found[i].phone]]

\* The wish lists analyze_messages can return: one WishMessage per NORMAL
\* message that scores above 0, its mentions in any order.
RECURSIVE analyze_messages(_, _)
analyze_messages(p, msgs) ==
    IF Len(msgs) = 0 THEN {<< >>}
    ELSE LET message == Head(msgs)
             score == _calculate_wish_score(p, message.text)
         IN IF message.message_type = "normal" /\ Len(message.text) > 0 /\ score > 0
            THEN {<<[message_id |-> message.id,
                     wish_score |-> score,
                     mentioned_names |-> mentioned,
                     is_thanks |-> _is_thanks_message(p, message.text),
                     modifiers |-> _extract_modifiers(p, message.text)]>> \o rest :
                     mentioned \in Orderings(_extract_mentioned_names(message.text)),
                     rest \in analyze_messages(p, Tail(msgs))}
            ELSE analyze_messages(p, Tail(msgs))

\* ------------------------------------------- specification: wish detection
Vocabulary == {"happy", "birthday", "hbd", "party", "thanks", "ann", ":cake:", "HBD"}

Texts == UNION {[1..n -> Vocabulary] : n \in 0..MaxLen}

NotScored == -1

WishIdle ==
    /\ text = << >>
    /\ patterns = FilePatterns
    /\ wish_score = NotScored
    /\ wish_message = << >>

ChatIdle ==
    /\ chat_id = 1
    /\ chat_type = "unknown"
    /\ messages = << >>
    /\ participants = << >>
    /\ wish_messages = << >>
    /\ clustering_config = [window_hours |-> DefaultWindowHours,
                            min_wish_score |-> DefaultMinWishScore]

LoopIdle ==
    /\ sorted_dates = << >>
    /\ date_index = 0
    /\ processed_dates = {}
    /\ windows = << >>
    /\ clusters = << >>

DriverIdle ==
    /\ infer_index = 1
    /\ all_clusters = << >>
    /\ all_participants = << >>

\* No credentials in the environment: the collaborator is disabled.
LLMIdle ==
    /\ llm_client = [available |-> FALSE, reply |-> [kind |-> "raises"],
                     max_messages_per_request |-> DefaultMaxMessages, now |-> 0, last_request_time |-> 0]
    /\ llm_result = << >>

\* No upload yet: no session, no background thread and no stream.
ProgressIdle ==
    /\ sessions = << >>
    /\ worker = [pc |-> "idle", updates |-> 0, done |-> 0, field |-> 0,
                 details |-> FALSE, success |-> FALSE]
    /\ stream = [pc |-> "unopened", percent |-> 0, current_task |-> 0, status |-> "running",
                 step |-> 0, details |-> 0]
    /\ whole_states = {}

SideIdle ==
    /\ explanations = << >>
    /\ uploaded_files = << >>
    /\ file_index = 1
    /\ processed_files = << >>
    /\ LLMIdle
    /\ ProgressIdle

ScoreIdle ==
    /\ SideIdle
    /\ transcript = [file_name |-> <<"chat">>, lines |-> << >>, save_participants |-> FALSE]
    /\ identities = << >>
    /\ confidence_config = << >>
    /\ score_index = 1
    /\ scored_identities = << >>

WishInit ==
    /\ text \in Texts
    /\ patterns \in {FilePatterns, MissingPatterns}
    /\ wish_score = NotScored
    /\ wish_message = << >>
    /\ stage = "analyze"
    /\ ChatIdle
    /\ LoopIdle
    /\ DriverIdle
    /\ ScoreIdle

\* One iteration of the loop of analyze_messages, for a NORMAL message.
AnalyzeMessage ==
    /\ wish_score = NotScored
    /\ wish_score' = _calculate_wish_score(patterns, text)
    /\ \E mentioned \in Orderings(_extract_mentioned_names(text)) :
          wish_message' =
              IF wish_score' > 0
              THEN <<[wish_score |-> wish_score',
                      mentioned_names |-> mentioned,
                      is_thanks |-> _is_thanks_message(patterns, text),
                      modifiers |-> _extract_modifiers(patterns, text)]>>
              ELSE << >>
    /\ UNCHANGED <<text, patterns, stage, chatVars, loopVars, driverVars, scoreVars>>

WishNext == AnalyzeMessage

WishSpec == WishInit /\ [][WishNext]_vars

\* C2: every wish score lies in [0,1] (0..20 twentieths), and a text in which
\* a configured negative pattern occurs scores exactly 0 whatever else matches.
NegativePatternOccurs(p, txt) ==
    \E k \in DOMAIN p.negative_patterns : \E i \in DOMAIN txt :
        /\ i + Len(p.negative_patterns[k]) - 1 <= Len(txt)
        /\ \A j \in DOMAIN p.negative_patterns[k] :
               Lower(txt[i + j - 1]) = p.negative_patterns[k][j]

C2_ScoreBounded ==
    wish_score # NotScored =>
        /\ wish_score >= 0
        /\ wish_score <= 20
        /\ NegativePatternOccurs(patterns, text) => wish_score = 0

\* A text holding a negative pattern and a strong wish phrase has been scored 0.
C2_Witness ==
    /\ wish_score = 0
    /\ NegativePatternOccurs(patterns, text)
    /\ regex_findall(patterns.strong_wishes, LowerText(text)) > 0
    /\ patterns = FilePatterns

\* C14 as the specification states it: without a configuration the analyzer
\* falls back to built-in defaults and wish messages are still detected; a
\* plain "happy birthday" then gets a positive score and a WishMessage.
C14_Original ==
    (/\ patterns = MissingPatterns
     /\ wish_score # NotScored
     /\ LowerText(text) = <<"happy", "birthday">>)
    => wish_score > 0 /\ Len(wish_message) = 1

\* Without a configuration no text of the model is detected as a wish: every
\* score is 0 and no WishMessage is made.
C14_NothingDetected ==
    (patterns = MissingPatterns /\ wish_score # NotScored)
    => wish_score = 0 /\ wish_message = << >>

\* The phrase of the list p occurs in the text at token i, as whole words and
\* whatever the case of the letters.
OccursAt(p, txt, k, i) ==
    /\ i + Len(p[k]) - 1 <= Len(txt)
    /\ \A j \in DOMAIN p[k] : Lower(txt[i + j - 1]) = p[k][j]

\* The strong-wish phrases found in the text, and their occurrences.
StrongPhrasesMatched(p, txt) ==
    {k \in DOMAIN p.strong_wishes : \E i \in DOMAIN txt : OccursAt(p.strong_wishes, txt, k, i)}

StrongOccurrences(p, txt) ==
    {ki \in (DOMAIN p.strong_wishes) \X (DOMAIN txt) : OccursAt(p.strong_wishes, txt, ki[1], ki[2])}

WeakSignalsPresent(p, txt) ==
    {k \in DOMAIN p.weak_signals : \E i \in DOMAIN txt : txt[i] = p.weak_signals[k]}

\* min(1, s) in twentieths, s built from strong matches: 0.8 each,
\* 0.1 for each weak signal present, 0.2 when more than one strong match,
\* halved for a text of fewer than 3 words without a strong match.
ExpectedScore(strong, weak, words) ==
    LET s == 16 * strong + 2 * weak + (IF strong > 1 THEN 4 ELSE 0)
        halved == IF words < 3 /\ strong = 0 THEN s \div 2 ELSE s
    IN IF halved > 20 THEN 20 ELSE halved

WordCount(txt) == Cardinality({i \in DOMAIN txt : txt[i] # LineBreak})

Scored == wish_score # NotScored /\ patterns = FilePatterns

\* C19 as the specification states it: for a message matching no negative
\* pattern the strong matches counted are the distinct strong-wish phrases
\* found in the message; a message scoring 0 produces no WishMessage.
C19_Original ==
    (Scored /\ ~NegativePatternOccurs(patterns, text)) =>
        /\ wish_score = ExpectedScore(Cardinality(StrongPhrasesMatched(patterns, text)),
                                      Cardinality(WeakSignalsPresent(patterns, text)),
                                      WordCount(text))
        /\ wish_score = 0 => wish_message = << >>

\* C19: for a message matching no negative pattern the strong matches
\* counted are the occurrences of strong-wish phrases as whole words, a phrase
\* that occurs twice counting twice; the score is min(1, s) with 0.8 for each
\* occurrence, 0.1 for each configured weak-signal token present, 0.2 when
\* there is more than one occurrence, halved when the message has fewer than
\* 3 words and no occurrence.  A WishMessage is produced iff the score is
\* above 0.
C19_OccurrencesCounted ==
    Scored =>
        /\ ~NegativePatternOccurs(patterns, text) =>
               wish_score = ExpectedScore(Cardinality(StrongOccurrences(patterns, text)),
                                          Cardinality(WeakSignalsPresent(patterns, text)),
                                          WordCount(text))
        /\ wish_score = 0 <=> wish_message = << >>

\* A message that repeats one strong-wish phrase has been scored 1.0: two
\* occurrences of a single phrase.
C19_Witness ==
    /\ Scored
    /\ ~NegativePatternOccurs(patterns, text)
    /\ Cardinality(StrongPhrasesMatched(patterns, text)) = 1
    /\ Cardinality(StrongOccurrences(patterns, text)) = 2
    /\ wish_score = 20
    /\ Len(wish_message) = 1

\* ----------------------------------------------- specification: clustering
\* Most wishes of a clustering run, and its last day number.
MaxWishes == 3
MaxDay == 3

\* A wish of the clustering runs: its day, its hour and its score.
WishOptions == [day : 0..MaxDay, hour : {0, 18}, wish_score : {2, 16}]

Chronological(s) ==
    \A i, j \in DOMAIN s : i < j =>
        \/ s[i].day < s[j].day
        \/ s[i].day = s[j].day /\ s[i].hour <= s[j].hour

WishInputs ==
    UNION {{s \in [1..n -> WishOptions] : Chronological(s)} : n \in 0..MaxWishes}

SenderOf(i) == IF i % 2 = 1 THEN "Ann" ELSE "Bob"

ClusterInit ==
    /\ WishIdle
    /\ stage = "group"
    /\ chat_id = 1
    /\ chat_type = "group"
    /\ participants = << >>
    /\ \E s \in WishInputs :
          /\ messages = [i \in DOMAIN s |->
                            [id |-> i, timestamp |-> [day |-> s[i].day, hour |-> s[i].hour],
                             sender |-> SenderOf(i), text |-> << >>, message_type |-> "normal"]]
          /\ wish_messages = [i \in DOMAIN s |->
                                 [message_id |-> i, wish_score |-> s[i].wish_score,
                                  mentioned_names |-> << >>, is_thanks |-> FALSE,
                                  modifiers |-> {}]]
    /\ clustering_config \in [window_hours : {DefaultWindowHours, 48},
                              min_wish_score : {DefaultMinWishScore, 18}]
    /\ LoopIdle
    /\ DriverIdle
    /\ ScoreIdle

\* cluster_wishes_by_date up to its loop: group the wishes by date, sort the dates.
GroupWishes ==
    /\ stage = "group"
    /\ sorted_dates' = SortedSeq({wish_date(messages, wish_messages[i]) :
                                     i \in {j \in DOMAIN wish_messages :
                                               in_lookup(messages, wish_messages[j].message_id)}})
    /\ date_index' = 1
    /\ processed_dates' = {}
    /\ clusters' = << >>
    /\ windows' = << >>
    /\ stage' = "window"
    /\ UNCHANGED <<wishVars, chatVars, driverVars, scoreVars>>

\* An iteration of the loop at a date an emitted cluster has claimed.
SkipProcessedDate ==
    /\ stage = "window"
    /\ date_index <= Len(sorted_dates)
    /\ sorted_dates[date_index] \in processed_dates
    /\ date_index' = date_index + 1
    /\ UNCHANGED <<wishVars, stage, chatVars, sorted_dates, processed_dates, windows, clusters, driverVars, scoreVars>>

\* An iteration of the loop at an unclaimed date: open its window, absorb the
\* dates inside it and emit a cluster when their wishes score enough.
OpenWindow ==
    /\ stage = "window"
    /\ date_index <= Len(sorted_dates)
    /\ sorted_dates[date_index] \notin processed_dates
    /\ LET current_date == sorted_dates[date_index]
           absorbed == cluster_dates(sorted_dates, current_date, clustering_config.window_hours)
           ws == cluster_wishes(messages, wish_messages, sorted_dates, absorbed)
           emit == total_score(ws) >= clustering_config.min_wish_score
       IN /\ IF emit
             THEN /\ \E peak_date \in _find_peak_date(messages, ws, absorbed) :
                        clusters' = Append(clusters,
                            WishCluster(chat_id, peak_date, messages, ws))
                  /\ processed_dates' = update_processed(processed_dates, absorbed)
             ELSE UNCHANGED <<clusters, processed_dates>>
          /\ windows' = Append(windows, [opened_at |-> current_date, dates |-> absorbed,
                                         total_score |-> total_score(ws), emitted |-> emit])
    /\ date_index' = date_index + 1
    /\ UNCHANGED <<wishVars, stage, chatVars, sorted_dates, driverVars, scoreVars>>

\* The loop has run over every date: cluster_wishes_by_date returns clusters.
ReturnClusters ==
    /\ stage = "window"
    /\ date_index > Len(sorted_dates)
    /\ stage' = "infer"
    /\ infer_index' = 1
    /\ UNCHANGED <<wishVars, chatVars, loopVars, all_clusters, all_participants, scoreVars>>

ClusterNext == GroupWishes \/ SkipProcessedDate \/ OpenWindow \/ ReturnClusters

ClusterSpec == ClusterInit /\ [][ClusterNext]_vars

\* The calendar dates of the wishes of a cluster.
AbsorbedDates(c) == {wish_date(messages, c.wish_messages[i]) : i \in DOMAIN c.wish_messages}

\* C1: in a run of cluster_wishes_by_date no date is absorbed into more than
\* one emitted cluster: the date sets of two emitted clusters are disjoint.
C1_ClustersDisjoint ==
    \A i, j \in DOMAIN clusters :
        i # j => AbsorbedDates(clusters[i]) \cap AbsorbedDates(clusters[j]) = {}

\* Two clusters have been emitted, the first from a window that absorbed two
\* dates, and a claimed date has been skipped.
C1_Witness ==
    /\ Len(clusters) = 2
    /\ Cardinality(AbsorbedDates(clusters[1])) = 2
    /\ stage = "infer"

\* Whether two wishes, given by their message ids, are in one emitted cluster.
SameCluster(a, b) ==
    \E k \in DOMAIN clusters :
        /\ \E i \in DOMAIN clusters[k].wish_messages : clusters[k].wish_messages[i].message_id = a
        /\ \E i \in DOMAIN clusters[k].wish_messages : clusters[k].wish_messages[i].message_id = b

\* Whether the timestamp of a message is within the 36 hours from midnight of D.
WithinWindow36(m, D) ==
    /\ D * 24 <= m.timestamp.day * 24 + m.timestamp.hour
    /\ m.timestamp.day * 24 + m.timestamp.hour <= D * 24 + 36

\* The summed score of the wishes of dates D and D+1.
ScoreOfTwoDays(D) ==
    total_score(SelectSeq(wish_messages,
                          LAMBDA w : wish_date(messages, w) \in {D, D + 1}))

\* The pairs of a wish dated D and a wish dated D+1, D having opened a window.
WindowPairs ==
    {<<D, a, b>> \in {windows[k].opened_at : k \in DOMAIN windows}
                     \X (DOMAIN messages) \X (DOMAIN messages) :
        /\ messages[a].timestamp.day = D
        /\ messages[b].timestamp.day = D + 1}

\* C3 as stated: with window_hours = 36, a wish dated D and a wish dated D+1
\* are in one emitted cluster exactly when the timestamps of both are within
\* the 36 hours that start at midnight of D.
C3_Original ==
    clustering_config.window_hours = 36 =>
        \A p \in WindowPairs :
            SameCluster(messages[p[2]].id, messages[p[3]].id)
                <=> /\ WithinWindow36(messages[p[2]], p[1])
                    /\ WithinWindow36(messages[p[3]], p[1])

\* C3 as amended: with window_hours = 36, a wish dated D and a wish dated D+1
\* are in one emitted cluster exactly when the wishes of D and D+1 together
\* score at least min_wish_score, whatever the time of day of either wish.
C3_SameClusterIffEmitted ==
    clustering_config.window_hours = 36 =>
        \A p \in WindowPairs :
            SameCluster(messages[p[2]].id, messages[p[3]].id)
                <=> ScoreOfTwoDays(p[1]) >= clustering_config.min_wish_score

\* A wish of 18:00 on D+1, 42 hours after midnight of D, is in the cluster of
\* the window opened at D.
C3_Witness ==
    /\ clustering_config.window_hours = 36
    /\ \E p \in WindowPairs :
          /\ SameCluster(messages[p[2]].id, messages[p[3]].id)
          /\ messages[p[3]].timestamp.hour = 18

\* The dates _find_peak_date can return for the window the loop is about to
\* open, and the empty set when the loop is not at an unclaimed date or the
\* window emits no cluster.
PeakDatesAhead ==
    IF /\ stage = "window"
       /\ date_index <= Len(sorted_dates)
       /\ sorted_dates[date_index] \notin processed_dates
    THEN LET absorbed == cluster_dates(sorted_dates, sorted_dates[date_index],
                                       clustering_config.window_hours)
             ws == cluster_wishes(messages, wish_messages, sorted_dates, absorbed)
         IN IF total_score(ws) >= clustering_config.min_wish_score
            THEN _find_peak_date(messages, ws, absorbed)
            ELSE {}
    ELSE {}

\* C16 as the specification states it: the pipeline is deterministic, no
\* result depends on the iteration order of a set; the peak date of a window
\* is then one date, the same in every run over the same wishes.
C16_Original == Cardinality(PeakDatesAhead) <= 1

\* The loop of cluster_wishes_by_date has run over every date.
LoopEnded == stage \in {"window", "infer"} /\ date_index > Len(sorted_dates)

\* The windows opened so far that emitted no cluster.
DiscardedWindows == {k \in DOMAIN windows : ~windows[k].emitted}

\* C17 as the specification states it: each date of a discarded window can
\* still be absorbed by a window opened later in the run; at the end of the
\* loop a later window has then covered each of its dates.
C17_Original ==
    LoopEnded =>
        \A k \in DiscardedWindows : \A d \in windows[k].dates :
            \E j \in DOMAIN windows : j > k /\ d \in windows[j].dates

\* C17: a window whose absorbed wishes sum to at least min_wish_score emits a
\* cluster and claims all its absorbed dates; a window whose sum is below it
\* emits no cluster and claims no date.  A date the discarded window absorbed
\* after its opening date is covered again by a window opened later, and is
\* claimed only by such a window when that one emits; the opening date of a
\* discarded window is covered by no later window and ends in no cluster.
C17_DiscardedWindowClaimsNothing ==
    /\ [](\A k \in DOMAIN windows :
            /\ windows[k].emitted
                   <=> (windows[k].total_score >= clustering_config.min_wish_score)
            /\ windows[k].emitted =>
                   /\ windows[k].dates \subseteq processed_dates
                   /\ \E c \in DOMAIN clusters : AbsorbedDates(clusters[c]) = windows[k].dates
            /\ ~windows[k].emitted =>
                   /\ windows[k].opened_at \notin processed_dates
                   /\ \A j \in DOMAIN windows : j > k => windows[k].opened_at \notin windows[j].dates
                   /\ \A d \in windows[k].dates \ {windows[k].opened_at} :
                          /\ d \in processed_dates =>
                                 \E j \in DOMAIN windows :
                                     j > k /\ windows[j].emitted /\ d \in windows[j].dates
                          /\ LoopEnded => \E j \in DOMAIN windows : j > k /\ d \in windows[j].dates)
    /\ [][(Len(windows') > Len(windows) /\ ~windows'[Len(windows')].emitted)
              => (processed_dates' = processed_dates /\ clusters' = clusters)]_vars

\* A window that absorbed two dates was discarded; the second of them was
\* absorbed again by the next window, which emitted a cluster and claimed it.
C17_Witness ==
    /\ LoopEnded
    /\ \E k \in DiscardedWindows :
          /\ Cardinality(windows[k].dates) = 2
          /\ k + 1 \in DOMAIN windows
          /\ windows[k + 1].emitted
          /\ windows[k].dates \cap windows[k + 1].dates # {}
          /\ windows[k].dates \cap processed_dates # {}

\* C18 as the specification states it: the window opened at D is the
\* half-open interval [midnight of D, midnight of D + window_hours); a date
\* is absorbed iff its midnight is at or after the start and strictly before
\* the end.
C18_Original ==
    \A k \in DOMAIN windows :
        windows[k].dates =
            {d \in Range(sorted_dates) :
                /\ midnight(windows[k].opened_at) <= midnight(d)
                /\ midnight(d) < window_end(midnight(windows[k].opened_at),
                                            clustering_config.window_hours)}

\* What the comparison of cluster_wishes_by_date gives: the interval is
\* closed, a date whose midnight is exactly window_hours after the start is
\* absorbed.
C18_ClosedWindow ==
    \A k \in DOMAIN windows :
        windows[k].dates =
            {d \in Range(sorted_dates) :
                /\ midnight(windows[k].opened_at) <= midnight(d)
                /\ midnight(d) <= window_end(midnight(windows[k].opened_at),
                                             clustering_config.window_hours)}

\* The score of the wishes of one date.
OwnScore(d) == total_score(date_groups(messages, wish_messages, d))

\* The emitted clusters a date belongs to.
ClustersOf(d) == {c \in DOMAIN clusters : d \in AbsorbedDates(clusters[c])}

\* C27: after a clustering run every date whose own wishes sum to at least
\* min_wish_score belongs to exactly one emitted cluster, and a date with
\* wishes that belongs to no emitted cluster opened a window whose wishes
\* summed below min_wish_score.
C27_StrongDatesClustered ==
    LoopEnded =>
        \A d \in Range(sorted_dates) :
            /\ OwnScore(d) >= clustering_config.min_wish_score
                   => Cardinality(ClustersOf(d)) = 1
            /\ ClustersOf(d) = {}
                   => \E k \in DOMAIN windows :
                          /\ windows[k].opened_at = d
                          /\ ~windows[k].emitted
                          /\ windows[k].total_score < clustering_config.min_wish_score

\* A run that discarded the window of its first date and emitted a cluster
\* for a later date that alone reaches min_wish_score.
C27_Witness ==
    /\ LoopEnded
    /\ Len(sorted_dates) >= 2
    /\ ClustersOf(sorted_dates[1]) = {}
    /\ OwnScore(sorted_dates[1]) > 0
    /\ \E d \in Range(sorted_dates) :
          /\ OwnScore(d) >= clustering_config.min_wish_score
          /\ \E c \in ClustersOf(d) : Cardinality(AbsorbedDates(clusters[c])) = 2

\* ----------------------------------------- specification: target inference
\* Most wishes of the cluster of a target inference run.
MaxTargetWishes == 2

\* The chats of the target inference runs: the type and the display names of
\* the participants, in the order of their first message.
ChatOptions ==
    {[type |-> "direct", names |-> <<"Ann", "Bob">>],
     [type |-> "group", names |-> <<"Ann", "Bob", "Joann">>],
     [type |-> "group", names |-> <<"Joann", "Bob", "Ann">>]}

PhoneOf(name) ==
    CASE name = "Bob" -> "+15551234567"
      [] name = "Joann" -> "+15559876543"
      [] OTHER -> None

\* The mentions of a wish of the target inference runs.
MentionOptions ==
    {<< >>, <<"@5551234567">>, <<"ann">>, <<"you", "@5550000000">>, <<"bob", "@5559876543">>}

TargetWishInputs(names) ==
    UNION {[1..n -> [sender : Range(names), is_thanks : BOOLEAN, mentioned_names : MentionOptions]] :
              n \in 1..MaxTargetWishes}

\* A parsed chat whose wishes form one cluster; the participants carry ids
\* when they were saved, and NoId otherwise.
TargetInit ==
    /\ WishIdle
    /\ stage = "infer"
    /\ chat_id = 1
    /\ \E chat \in ChatOptions, saved \in BOOLEAN :
          /\ chat_type = chat.type
          /\ participants = [i \in DOMAIN chat.names |->
                                [id |-> IF saved THEN i ELSE NoId, chat_id |-> 1,
                                 display_name |-> chat.names[i], phone |-> PhoneOf(chat.names[i])]]
          /\ \E s \in TargetWishInputs(chat.names) :
                /\ messages = [i \in DOMAIN s |->
                                  [id |-> i, timestamp |-> [day |-> 0, hour |-> 0],
                                   sender |-> s[i].sender, text |-> << >>,
                                   message_type |-> "normal"]]
                /\ wish_messages = [i \in DOMAIN s |->
                                       [message_id |-> i, wish_score |-> StrongWeight,
                                        mentioned_names |-> s[i].mentioned_names,
                                        is_thanks |-> s[i].is_thanks, modifiers |-> {}]]
    /\ clustering_config = [window_hours |-> DefaultWindowHours,
                            min_wish_score |-> DefaultMinWishScore]
    /\ sorted_dates = <<0>>
    /\ date_index = 2
    /\ processed_dates = {0}
    /\ windows = << >>
    /\ clusters = <<WishCluster(chat_id, 0, messages, wish_messages)>>
    /\ DriverIdle
    /\ ScoreIdle

\* One iteration of the driver's loop over the clusters of a chat: infer the
\* target of the cluster, then adjust its date.
InferTarget ==
    /\ stage = "infer"
    /\ infer_index <= Len(clusters)
    /\ LET cluster == clusters[infer_index]
           target_id == infer_birthday_target(cluster, participants, messages, chat_type)
           with_target == [cluster EXCEPT !.target_participant_id = target_id]
       IN clusters' = [clusters EXCEPT
                          ![infer_index] = [with_target EXCEPT
                                               !.date = adjust_birthday_date(with_target)]]
    /\ infer_index' = infer_index + 1
    /\ UNCHANGED <<wishVars, stage, chatVars, sorted_dates, date_index, processed_dates,
                   windows, all_clusters, all_participants, scoreVars>>

\* After the loop: the clusters and the participants of the chat join those
\* of the files processed before.
CollectClusters ==
    /\ stage = "infer"
    /\ infer_index > Len(clusters)
    /\ all_clusters' = all_clusters \o clusters
    /\ all_participants' = all_participants \o participants
    /\ stage' = "collected"
    /\ UNCHANGED <<wishVars, chatVars, loopVars, infer_index, scoreVars>>

TargetNext == InferTarget \/ CollectClusters

TargetSpec == TargetInit /\ [][TargetNext]_vars

\* The cluster of index k has been through the inference loop.
Inferred(k) == stage \in {"infer", "collected"} /\ k \in DOMAIN clusters /\ k < infer_index

\* The senders of the thanks-type wishes of the cluster of index k.
ThanksSendersOf(k) ==
    {messages[i].sender : i \in {j \in DOMAIN messages :
        \E w \in DOMAIN clusters[k].wish_messages :
            /\ clusters[k].wish_messages[w].message_id = messages[j].id
            /\ clusters[k].wish_messages[w].is_thanks}}

\* C4: in a direct chat between A and B, when A is the only sender of a
\* thanks-type wish of a cluster, the inferred target of the cluster is A's
\* participant id.
C4_DirectThanksTarget ==
    \A k \in DOMAIN clusters, a \in DOMAIN participants :
        (/\ Inferred(k)
         /\ chat_type = "direct"
         /\ Len(participants) = 2
         /\ ThanksSendersOf(k) = {participants[a].display_name})
        => clusters[k].target_participant_id = participants[a].id

\* A direct chat where A alone thanked, A also sent a wish of its own (so that
\* elimination names nobody), and the cluster got A's id.
C4_Witness ==
    \E k \in DOMAIN clusters, a \in DOMAIN participants :
        /\ Inferred(k)
        /\ chat_type = "direct"
        /\ ThanksSendersOf(k) = {participants[a].display_name}
        /\ \E w \in DOMAIN clusters[k].wish_messages :
              /\ ~clusters[k].wish_messages[w].is_thanks
              /\ message_lookup(messages, clusters[k].wish_messages[w].message_id).sender
                     = participants[a].display_name
        /\ participants[a].id # NoId
        /\ clusters[k].target_participant_id = participants[a].id

\* The participants matching the most frequent phone mention, and those
\* matching the most frequent name mention, of the cluster of index k.
PhoneMatched(k) ==
    IF Len(phone_mentions(clusters[k])) = 0 THEN {}
    ELSE {p \in DOMAIN participants :
             /\ participants[p].phone # None
             /\ is_substring(phone_digits(most_common(phone_mentions(clusters[k]))),
                             phone_digits(participants[p].phone))}

NameMatched(k) ==
    IF Len(name_mentions(clusters[k])) = 0 THEN {}
    ELSE {p \in DOMAIN participants :
             is_substring(lower_chars(most_common(name_mentions(clusters[k]))),
                          lower_chars(participants[p].display_name))}

FirstOf(S) == CHOOSE p \in S : \A q \in S : p <= q

\* C5: in a group chat, when the wishes of a cluster carry a phone mention and
\* a name mention that both match participants, the inferred target is the
\* participant the phone mention matches (the first one in the participants'
\* order), whoever the name mention matches.
C5_PhoneBeforeName ==
    \A k \in DOMAIN clusters :
        (/\ Inferred(k)
         /\ chat_type = "group"
         /\ PhoneMatched(k) # {}
         /\ NameMatched(k) # {})
        => clusters[k].target_participant_id = participants[FirstOf(PhoneMatched(k))].id

\* A group chat where the phone mention and the name mention match two
\* different participants, and the cluster got the id of the phone's one.
C5_Witness ==
    \E k \in DOMAIN clusters :
        /\ Inferred(k)
        /\ chat_type = "group"
        /\ PhoneMatched(k) # {}
        /\ NameMatched(k) # {}
        /\ PhoneMatched(k) \cap NameMatched(k) = {}
        /\ \A p \in DOMAIN participants : participants[p].id = p
        /\ clusters[k].target_participant_id = FirstOf(PhoneMatched(k))

\* The participant the sole sender of thanks of the cluster of index k is,
\* and the participant who alone sent no wish of it.
ThanksMatched(k) ==
    IF Cardinality(ThanksSendersOf(k)) # 1 THEN {}
    ELSE {p \in DOMAIN participants : participants[p].display_name \in ThanksSendersOf(k)}

WishersOf(k) ==
    {messages[i].sender : i \in {j \in DOMAIN messages :
        \E w \in DOMAIN clusters[k].wish_messages :
            /\ clusters[k].wish_messages[w].message_id = messages[j].id
            /\ ~clusters[k].wish_messages[w].is_thanks}}

Eliminated(k) ==
    LET others == {participants[p].display_name : p \in DOMAIN participants} \ WishersOf(k)
    IN IF Cardinality(others) # 1 THEN {}
       ELSE {p \in DOMAIN participants : participants[p].display_name \in others}

\* The participant the first strategy that yields one gives, 0 when none of
\* the four strategies yields a participant.
FirstYielded(k) ==
    IF PhoneMatched(k) # {} THEN FirstOf(PhoneMatched(k))
    ELSE IF NameMatched(k) # {} THEN FirstOf(NameMatched(k))
    ELSE IF ThanksMatched(k) # {} THEN FirstOf(ThanksMatched(k))
    ELSE IF Eliminated(k) # {} THEN FirstOf(Eliminated(k))
    ELSE 0

\* C25 as the specification states it: in a group chat the strategies are
\* tried in the order phone mention, name mention, sole thanks-sender,
\* elimination, the first that yields a participant decides the target, and
\* the result is unresolved exactly when no strategy yields a participant.
C25_Original ==
    \A k \in DOMAIN clusters :
        (Inferred(k) /\ chat_type = "group") =>
            /\ FirstYielded(k) # 0 =>
                   clusters[k].target_participant_id = participants[FirstYielded(k)].id
            /\ clusters[k].target_participant_id = NoId <=> FirstYielded(k) = 0

\* What _infer_target_group_chat returns: the id of the participant the first
\* yielding strategy gives, which is no id when the participant was never
\* saved, and no id when no strategy yields a participant.
C25_FirstYieldingStrategy ==
    \A k \in DOMAIN clusters :
        (Inferred(k) /\ chat_type = "group") =>
            clusters[k].target_participant_id =
                IF FirstYielded(k) # 0 THEN participants[FirstYielded(k)].id ELSE NoId

\* ------------------------------------------ specification: date adjustment
\* Most wishes of the cluster of a date adjustment run.
MaxAdjustWishes == 4

\* The timing modifiers a wish can carry.
ModifierOptions == SUBSET {"belated", "advance"}

\* The day of the wishes of a date adjustment run.
AdjustDays == {1, 2}

\* A group chat whose wishes, all of one day, form one cluster; each wish
\* carries the modifiers found in its text.
AdjustInit ==
    /\ WishIdle
    /\ stage = "infer"
    /\ chat_id = 1
    /\ chat_type = "group"
    /\ participants = [i \in 1..3 |->
                          [id |-> i, chat_id |-> 1,
                           display_name |-> <<"Ann", "Bob", "Joann">>[i],
                           phone |-> PhoneOf(<<"Ann", "Bob", "Joann">>[i])]]
    /\ \E n \in 1..MaxAdjustWishes, d \in AdjustDays :
          \E m \in [1..n -> ModifierOptions] :
              /\ messages = [i \in 1..n |->
                                [id |-> i, timestamp |-> [day |-> d, hour |-> 0],
                                 sender |-> "Bob", text |-> << >>,
                                 message_type |-> "normal"]]
              /\ wish_messages = [i \in 1..n |->
                                     [message_id |-> i, wish_score |-> StrongWeight,
                                      mentioned_names |-> << >>,
                                      is_thanks |-> FALSE, modifiers |-> m[i]]]
              /\ sorted_dates = <<d>>
              /\ processed_dates = {d}
              /\ clusters = <<WishCluster(chat_id, d, messages, wish_messages)>>
    /\ clustering_config = [window_hours |-> DefaultWindowHours,
                            min_wish_score |-> DefaultMinWishScore]
    /\ date_index = 2
    /\ windows = << >>
    /\ DriverIdle
    /\ ScoreIdle

AdjustNext == InferTarget \/ CollectClusters

AdjustSpec == AdjustInit /\ [][AdjustNext]_vars

\* The wishes of the cluster of index k that carry the modifier, and the date
\* the clustering gave the cluster: the day of its wishes.
WishesCarrying(k, modifier) ==
    {i \in DOMAIN clusters[k].wish_messages : modifier \in clusters[k].wish_messages[i].modifiers}

ClusteredDate(k) == wish_date(messages, clusters[k].wish_messages[1])

\* Strictly more than half of the wishes of the cluster of index k carry the
\* modifier: they outnumber all the others, those without modifier included.
Majority(k, modifier) ==
    Cardinality(WishesCarrying(k, modifier))
        > Len(clusters[k].wish_messages) - Cardinality(WishesCarrying(k, modifier))

\* C20: adjust_birthday_date returns the cluster date minus one day when
\* strictly more than half of all the wishes of the cluster carry 'belated';
\* otherwise plus one day when strictly more than half carry 'advance';
\* otherwise the date unchanged.  Exactly half is not a majority.
C20_MajorityAdjusts ==
    \A k \in DOMAIN clusters :
        Inferred(k) =>
            clusters[k].date =
                IF Majority(k, "belated") THEN ClusteredDate(k) - 1
                ELSE IF Majority(k, "advance") THEN ClusteredDate(k) + 1
                ELSE ClusteredDate(k)

\* A cluster of four wishes, exactly two of them belated, three of them
\* advance and one without modifier, has been moved one day forward.
C20_Witness ==
    /\ Inferred(1)
    /\ Len(clusters[1].wish_messages) = 4
    /\ Cardinality(WishesCarrying(1, "belated")) = 2
    /\ Cardinality(WishesCarrying(1, "advance")) = 3
    /\ \E i \in DOMAIN clusters[1].wish_messages : clusters[1].wish_messages[i].modifiers = {}
    /\ clusters[1].date = ClusteredDate(1) + 1

\* -------------------------------------- specification: identity resolution
\* Most clusters of an identity resolution run.
MaxClusters == 3

\* The participants of two chats: the same phone under two display names,
\* one in each chat; a participant without a phone; one that was never saved.
ResolveParticipants ==
    <<[id |-> 1, chat_id |-> 1, display_name |-> "Ann", phone |-> "+15551234567"],
      [id |-> 2, chat_id |-> 2, display_name |-> "Annie", phone |-> "+15551234567"],
      [id |-> 3, chat_id |-> 1, display_name |-> "Bob", phone |-> None],
      [id |-> NoId, chat_id |-> 2, display_name |-> "Cy", phone |-> None]>>

\* The evidence of the clusters of the identity resolution runs, by date.
ClusterOptions ==
    {[date |-> day_number(2023, 2, 28), unique_wishers |-> 2, has_thanks |-> FALSE, has_explicit_mentions |-> FALSE],
     [date |-> day_number(2024, 2, 29), unique_wishers |-> 5, has_thanks |-> FALSE, has_explicit_mentions |-> TRUE],
     [date |-> day_number(2024, 3, 1), unique_wishers |-> 1, has_thanks |-> TRUE, has_explicit_mentions |-> FALSE],
     [date |-> day_number(2025, 3, 1), unique_wishers |-> 3, has_thanks |-> TRUE, has_explicit_mentions |-> TRUE]}

ClusterInputs ==
    UNION {[1..n -> [target : {p.id : p \in Range(ResolveParticipants)}, evidence : ClusterOptions]] :
              n \in 1..MaxClusters}

ChatOf(id) == IF id = 2 THEN 2 ELSE 1

\* The clusters and the participants of the processed files.
IdentityInit ==
    /\ WishIdle
    /\ ChatIdle
    /\ LoopIdle
    /\ stage = "collected"
    /\ infer_index = 1
    /\ all_participants = ResolveParticipants
    /\ \E s \in ClusterInputs :
          all_clusters = [i \in DOMAIN s |->
                             [chat_id |-> ChatOf(s[i].target),
                              date |-> s[i].evidence.date,
                              target_participant_id |-> s[i].target,
                              wish_messages |-> << >>,
                              unique_wishers |-> s[i].evidence.unique_wishers,
                              total_wish_score |-> StrongWeight * s[i].evidence.unique_wishers,
                              has_thanks |-> s[i].evidence.has_thanks,
                              has_explicit_mentions |-> s[i].evidence.has_explicit_mentions]]
    /\ ScoreIdle

ResolveIdentities ==
    /\ stage = "collected"
    /\ identities' = resolve_identities(all_clusters, all_participants)
    /\ stage' = "resolved"
    /\ UNCHANGED <<wishVars, chatVars, loopVars, driverVars, confidence_config,
                   score_index, scored_identities, transcript, sideVars>>

IdentityNext == ResolveIdentities

IdentitySpec == IdentityInit /\ [][IdentityNext]_vars

\* The participant a cluster of all_clusters targets (it has one).
TargetOf(i) == all_participants[participant_by_id(all_participants, all_clusters[i].target_participant_id)]

\* The clusters whose target has the phone ph.
ClustersOfPhone(ph) ==
    {i \in DOMAIN all_clusters :
        /\ participant_by_id(all_participants, all_clusters[i].target_participant_id) # 0
        /\ TargetOf(i).phone = ph}

\* The identities that carry the phone ph.
IdentitiesOfPhone(ph) == {k \in DOMAIN identities : identities[k].phone = ph}

\* The phone ph is the target's phone of exactly two clusters, i and j, that
\* come from different chats.
TwoChatsOnePhone(ph, i, j) ==
    /\ stage = "resolved"
    /\ ph # None
    /\ i # j
    /\ ClustersOfPhone(ph) = {i, j}
    /\ all_clusters[i].chat_id # all_clusters[j].chat_id

Phones == {all_participants[p].phone : p \in DOMAIN all_participants}

\* C6 as the specification states it: the two clusters resolve to a single
\* Identity with years_observed = 2.
C6_Original ==
    \A ph \in Phones : \A i, j \in DOMAIN all_clusters :
        TwoChatsOnePhone(ph, i, j)
        => /\ Cardinality(IdentitiesOfPhone(ph)) = 1
           /\ \A k \in IdentitiesOfPhone(ph) : identities[k].years_observed = 2

\* C6: two clusters from different chats whose targets share a phone resolve
\* to a single Identity, whose years_observed is the number of distinct
\* calendar years of the two clusters' dates: 2 when the dates fall in
\* different years, 1 when they fall in the same year.
C6_OneIdentityYearsCounted ==
    \A ph \in Phones : \A i, j \in DOMAIN all_clusters :
        TwoChatsOnePhone(ph, i, j)
        => /\ Cardinality(IdentitiesOfPhone(ph)) = 1
           /\ \A k \in IdentitiesOfPhone(ph) :
                 identities[k].years_observed =
                     Cardinality({year_of(all_clusters[i].date), year_of(all_clusters[j].date)})

\* Two clusters of different chats and different years, one phone, resolved
\* to one Identity observed in two years.
C6_Witness ==
    \E ph \in Phones : \E i, j \in DOMAIN all_clusters :
        /\ TwoChatsOnePhone(ph, i, j)
        /\ year_of(all_clusters[i].date) # year_of(all_clusters[j].date)
        /\ TargetOf(i).display_name # TargetOf(j).display_name
        /\ Cardinality(IdentitiesOfPhone(ph)) = 1
        /\ \A k \in IdentitiesOfPhone(ph) : identities[k].years_observed = 2

\* The month_day pairs of the observations of the identity of index k, in
\* the order of the clusters.
MonthDaysOf(k) ==
    LET grouped == _group_observations_by_identity(all_clusters, all_participants)
        obs == observations_for(grouped, grouped.keys[k])
    IN [i \in DOMAIN obs |-> obs[i].month_day]

\* The two most frequent pairs of a list that holds two pairs at least.
TopTwo(month_days) ==
    <<most_common(month_days),
      most_common(SelectSeq(month_days, LAMBDA md : md # most_common(month_days)))>>

\* C7: when the two most frequent (month, day) pairs of the observations of
\* an identity are (2, 29) and (3, 1), in either order, the birthday of the
\* identity is (2, 29).
C7_LeapDayPreferred ==
    stage = "resolved" =>
        \A k \in DOMAIN identities :
            LET month_days == MonthDaysOf(k)
            IN (/\ Cardinality(Range(month_days)) >= 2
                /\ TopTwo(month_days) \in {<<<<2, 29>>, <<3, 1>>>>, <<<<3, 1>>, <<2, 29>>>>})
               => /\ identities[k].birthday_month = 2
                  /\ identities[k].birthday_day = 29

\* An identity seen twice on (3, 1) and once on (2, 29), resolved to (2, 29).
C7_Witness ==
    /\ stage = "resolved"
    /\ \E k \in DOMAIN identities :
          /\ Cardinality(Range(MonthDaysOf(k))) >= 2
          /\ TopTwo(MonthDaysOf(k)) = <<<<3, 1>>, <<2, 29>>>>
          /\ Len(MonthDaysOf(k)) = 3
          /\ identities[k].birthday_month = 2
          /\ identities[k].birthday_day = 29

\* ------------------------------------- specification: confidence scoring
\* Most years an identity of a scoring run was observed in.
MaxYears == 5

\* A configuration file that sets every option of the "confidence" section.
CustomConfig ==
    [base_score |-> 150, multi_year_bonus |-> 90, unique_wishers_bonus |-> 30,
     explicit_mention_bonus |-> 15, thanks_bonus |-> 60,
     conflicting_dates_penalty |-> -90, min_threshold |-> 150]

WisherOptions == {1, 3, 5, 8}

\* The evidence resolve_identities can attach to an identity: a flag of the
\* best cluster is a flag of the identity, and several chats or several
\* (month, day) pairs take several clusters, each with a wisher.
EvidenceOptions ==
    {e \in [total_wishers : WisherOptions, phone : {None, "+15551234567"}, chats : {1, 2},
            has_explicit_mentions : BOOLEAN, has_thanks_messages : BOOLEAN,
            date_consistency : BOOLEAN, best_has_mentions : BOOLEAN, best_has_thanks : BOOLEAN] :
        /\ e.best_has_mentions => e.has_explicit_mentions
        /\ e.best_has_thanks => e.has_thanks_messages
        /\ (e.chats > 1 \/ ~e.date_consistency) => e.total_wishers >= 2}

\* The Identity of the evidence e observed in y years.
IdentityOf(e, y) ==
    [canonical_name |-> "Ann",
     phone |-> e.phone,
     birthday_month |-> 8,
     birthday_day |-> 1,
     years_observed |-> y,
     total_wishers |-> e.total_wishers,
     evidence_summary |->
         [total_observations |-> Max(y, e.chats),
          years |-> [i \in 1..y |-> EpochYear + i - 1],
          chats |-> e.chats,
          total_wishers |-> e.total_wishers,
          has_explicit_mentions |-> e.has_explicit_mentions,
          has_thanks_messages |-> e.has_thanks_messages,
          date_consistency |-> e.date_consistency,
          best_cluster |-> [date |-> day_number(EpochYear, 8, 1), wishers |-> 1,
                            score |-> StrongWeight,
                            has_mentions |-> e.best_has_mentions,
                            has_thanks |-> e.best_has_thanks]],
     confidence |-> 0]

\* Two identities of the same evidence, observed in y1 and in y2 years.
ConfidenceInit ==
    /\ WishIdle
    /\ ChatIdle
    /\ LoopIdle
    /\ DriverIdle
    /\ stage = "resolved"
    /\ confidence_config \in {<< >>, CustomConfig}
    /\ \E e \in EvidenceOptions, y1, y2 \in 1..MaxYears :
          /\ e.total_wishers >= Max(y1, y2)
          /\ identities = <<IdentityOf(e, y1), IdentityOf(e, y2)>>
    /\ score_index = 1
    /\ scored_identities = << >>
    /\ transcript = [file_name |-> <<"chat">>, lines |-> << >>, save_participants |-> FALSE]
    /\ SideIdle

\* One iteration of the loop of score_all_identities.
ScoreIdentity ==
    /\ stage = "resolved"
    /\ score_index <= Len(identities)
    /\ LET confidence == calculate_confidence(confidence_config, identities[score_index])
           scored == [identities[score_index] EXCEPT !.confidence = confidence]
       IN /\ identities' = [identities EXCEPT ![score_index] = scored]
          /\ scored_identities' =
                 IF confidence >= config_get(confidence_config, "min_threshold", DefaultMinThreshold)
                 THEN Append(scored_identities, scored)
                 ELSE scored_identities
    /\ score_index' = score_index + 1
    /\ UNCHANGED <<wishVars, stage, chatVars, loopVars, driverVars, confidence_config, transcript, sideVars>>

\* After the loop: sort what passed the threshold and return it.
SortScored ==
    /\ stage = "resolved"
    /\ score_index > Len(identities)
    /\ scored_identities' = sort_by_confidence(scored_identities)
    /\ stage' = "scored"
    /\ UNCHANGED <<wishVars, chatVars, loopVars, driverVars, identities, confidence_config,
                   score_index, transcript, sideVars>>

ConfidenceNext == ScoreIdentity \/ SortScored

ConfidenceSpec == ConfidenceInit /\ [][ConfidenceNext]_vars

\* score_all_identities has computed the confidence of every identity.
AllScored == stage \in {"resolved", "scored"} /\ score_index > Len(identities)

\* Two identities that differ in nothing the score reads but years_observed.
SameOtherEvidence(a, b) ==
    /\ a.total_wishers = b.total_wishers
    /\ a.phone = b.phone
    /\ a.evidence_summary.chats = b.evidence_summary.chats
    /\ a.evidence_summary.has_explicit_mentions = b.evidence_summary.has_explicit_mentions
    /\ a.evidence_summary.has_thanks_messages = b.evidence_summary.has_thanks_messages
    /\ a.evidence_summary.date_consistency = b.evidence_summary.date_consistency
    /\ a.evidence_summary.best_cluster = b.evidence_summary.best_cluster

\* C8 as the specification states it: the identity observed in more years
\* scores strictly higher.
C8_Original ==
    AllScored =>
        \A i, j \in DOMAIN identities :
            (/\ SameOtherEvidence(identities[i], identities[j])
             /\ identities[i].years_observed < identities[j].years_observed)
            => identities[i].confidence < identities[j].confidence

\* C8: holding all other evidence fixed, the confidence never decreases with
\* years_observed: for y1 < y2 the identity of y2 years scores at least as
\* high as the one of y1 years, and strictly higher when y1 is at most 3 (the
\* multi-year factor is capped at three extra years), the lower score is
\* below 1.0 and the higher one above 0 (the sum is clamped to [0, 1]).
C8_NonDecreasingInYears ==
    AllScored =>
        \A i, j \in DOMAIN identities :
            (/\ SameOtherEvidence(identities[i], identities[j])
             /\ identities[i].years_observed < identities[j].years_observed)
            => /\ identities[i].confidence <= identities[j].confidence
               /\ (/\ identities[i].years_observed <= YearCap
                    /\ identities[i].confidence < One
                    /\ identities[j].confidence > 0)
                  => identities[i].confidence < identities[j].confidence

\* Two scored identities of the same evidence, of two and of three years, the
\* second strictly above the first and below 1.0.
C8_Witness ==
    /\ AllScored
    /\ \E i, j \in DOMAIN identities :
          /\ SameOtherEvidence(identities[i], identities[j])
          /\ identities[i].years_observed = 2
          /\ identities[j].years_observed = 3
          /\ identities[i].confidence < identities[j].confidence
          /\ identities[j].confidence < One

passing_identities(config, ids) ==
    SelectSeq(ids, LAMBDA identity :
        identity.confidence >= config_get(config, "min_threshold", DefaultMinThreshold))

\* s lists the elements of t, each as often as t does, in some order.
IsPermutation(s, t) ==
    /\ Len(s) = Len(t)
    /\ \E order \in Orderings(DOMAIN t) : \A k \in DOMAIN s : s[k] = t[order[k]]

\* C11: score_all_identities returns exactly the input identities whose
\* computed confidence is at or above min_threshold, each carrying the
\* confidence calculate_confidence gives it, ordered by confidence descending;
\* the identities below the threshold are absent from the result.
C11_ThresholdAndOrder ==
    stage = "scored" =>
        /\ \A i \in DOMAIN identities :
              identities[i].confidence = calculate_confidence(confidence_config, identities[i])
        /\ IsPermutation(scored_identities, passing_identities(confidence_config, identities))
        /\ \A k \in DOMAIN scored_identities :
              /\ scored_identities[k].confidence
                     >= config_get(confidence_config, "min_threshold", DefaultMinThreshold)
              /\ k > 1 => scored_identities[k - 1].confidence >= scored_identities[k].confidence

\* A returned list of two identities that were given in ascending order of
\* confidence and come back in descending order.
C11_Witness ==
    /\ stage = "scored"
    /\ Len(scored_identities) = 2
    /\ identities[1].confidence < identities[2].confidence
    /\ scored_identities = <<identities[2], identities[1]>>

\* ------------------------------- specification: the explanation of a score
\* The identities are scored as above; the detail view then asks for the
\* explanation of each scored identity in turn.
ExplainIdentity ==
    /\ stage = "scored"
    /\ Len(explanations) < Len(identities)
    /\ explanations' = Append(explanations,
           get_confidence_explanation(confidence_config, identities[Len(explanations) + 1]))
    /\ UNCHANGED <<wishVars, stage, chatVars, loopVars, driverVars, identities, confidence_config,
                   score_index, scored_identities, transcript, batchVars, llmVars, progressVars>>

ExplainNext == ConfidenceNext \/ ExplainIdentity

ExplainSpec == ConfidenceInit /\ [][ExplainNext]_vars

\* The values an explanation lists, bonuses first.
listed_values(explanation) ==
    [k \in 1..Len(explanation.bonuses) |-> explanation.bonuses[k].value]
    \o [k \in 1..Len(explanation.penalties) |-> explanation.penalties[k].value]

\* The types an explanation lists.
listed_types(explanation) ==
    {explanation.bonuses[k].type : k \in 1..Len(explanation.bonuses)}
    \cup {explanation.penalties[k].type : k \in 1..Len(explanation.penalties)}

\* calculate_confidence applied the group-inference penalty to the identity.
InferencePenaltyApplied(identity) ==
    LET evidence == identity.evidence_summary
    IN /\ ~evidence.has_explicit_mentions
       /\ ~evidence.has_thanks_messages
       /\ evidence.chats > 0
       /\ ~evidence.best_cluster.has_mentions
       /\ ~evidence.best_cluster.has_thanks

\* C12 as the specification states it: the explanation of an identity lists
\* every bonus and penalty calculate_confidence applied to it and nothing
\* else, so base_score plus the listed values, clamped to [0, 1], is the
\* computed confidence.
C12_Original ==
    \A k \in DOMAIN explanations :
        clamp(explanations[k].base_score + SumSeq(listed_values(explanations[k])))
            = identities[k].confidence

\* What the explanation leaves out is the group-inference penalty and nothing
\* else: with that penalty added where calculate_confidence applied it, the
\* listed values do sum to the computed confidence.
C12_AllButInferencePenalty ==
    \A k \in DOMAIN explanations :
        /\ explanations[k].final_score = identities[k].confidence
        /\ "group_inference" \notin listed_types(explanations[k])
        /\ clamp(explanations[k].base_score + SumSeq(listed_values(explanations[k]))
                 + (IF InferencePenaltyApplied(identities[k]) THEN InferencePenalty ELSE 0))
               = identities[k].confidence

\* ------------------------------------------- specification: the pipeline
\* The pipeline over one export file: parse, detect the wishes, cluster them,
\* infer the targets and adjust the dates as the driver does, then resolve
\* the identities and score them.
\*
\* The thank-you messages of the transcripts.
ThankYouTexts ==
    {<<"thank", "you", "all">>,
     <<"thanks">>,
     <<"thank", "you", ":tada:">>,
     <<"thanks", "for", "the", "wishes", ":cake:">>}

\* A header line of 2024.
Line(month, day, hour, ampm, sender, txt) ==
    [header |-> TRUE, month |-> month, day |-> day, year |-> 24, hour |-> hour, ampm |-> ampm,
     sender |-> sender, text |-> txt]

\* Three "happy birthday" from three senders on 2024-08-01, then a thank-you
\* from Sarath, the same afternoon or the morning after.
Transcripts ==
    {<<Line(8, 1, 9, "AM", "Alice", <<"happy", "birthday">>),
       Line(8, 1, 10, "AM", "Bob", <<"happy", "birthday">>),
       Line(8, 1, 11, "AM", "Charlie", <<"happy", "birthday">>),
       Line(8, thanks_day, thanks_hour, "PM", "Sarath", thanks)>> :
        thanks_day \in {1, 2}, thanks_hour \in {1, 9}, thanks \in ThankYouTexts}

E2EInit ==
    /\ text = << >>
    /\ patterns \in {FilePatterns, MissingPatterns}
    /\ wish_score = NotScored
    /\ wish_message = << >>
    /\ stage = "parse"
    /\ ChatIdle
    /\ LoopIdle
    /\ DriverIdle
    /\ identities = << >>
    /\ confidence_config = << >>
    /\ score_index = 1
    /\ scored_identities = << >>
    /\ transcript \in [file_name : {<<"chat">>}, lines : Transcripts, save_participants : BOOLEAN]
    /\ SideIdle

\* The driver parses the file, saves the chat and the messages and gives the
\* messages their ids.  It saves no participant: a participant has an id only
\* when a caller that means to resolve identities has saved it.
ParseFile ==
    /\ stage = "parse"
    /\ LET parsed == _parse_messages(transcript.lines, << >>)
           found == _extract_participants(parsed)
       IN /\ messages' = [i \in DOMAIN parsed |-> [parsed[i] EXCEPT !.id = i]]
          /\ participants' =
                 [i \in DOMAIN found |->
                     [found[i] EXCEPT !.chat_id = chat_id,
                                      !.id = IF transcript.save_participants THEN i ELSE NoId]]
    /\ chat_type' = _extract_chat_info(transcript.file_name, transcript.lines)
    /\ stage' = "analyze"
    /\ UNCHANGED <<wishVars, chat_id, wish_messages, clustering_config, loopVars, driverVars,
                   scoreVars>>

\* analyze_messages over the messages of the file; without a wish the driver
\* skips the clustering and the inference.
AnalyzeMessages ==
    /\ stage = "analyze"
    /\ Len(messages) > 0
    /\ \E wishes \in analyze_messages(patterns, messages) :
          /\ wish_messages' = wishes
          /\ stage' = IF Len(wishes) > 0 THEN "group" ELSE "collected"
    /\ UNCHANGED <<wishVars, chat_id, chat_type, messages, participants, clustering_config,
                   loopVars, driverVars, scoreVars>>

E2ENext ==
    \/ ParseFile
    \/ AnalyzeMessages
    \/ ClusterNext
    \/ TargetNext
    \/ IdentityNext
    \/ ConfidenceNext

E2ESpec == E2EInit /\ [][E2ENext]_vars

\* The pipeline has run to its end over a transcript of three "happy birthday"
\* and a thank-you from Sarath, under the patterns of config.json.
PipelineDone == stage = "scored" /\ patterns = FilePatterns /\ transcript.lines \in Transcripts

\* C10 as the specification states it: the pipeline yields exactly one cluster
\* with has_thanks, its target is Sarath's participant, reached through the
\* thanks-sender rule, and the confidence of Sarath's identity is at least
\* base_score + thanks_bonus.
C10_Original ==
    PipelineDone =>
        /\ Len(all_clusters) = 1
        /\ all_clusters[1].has_thanks
        /\ \E p \in DOMAIN all_participants :
              /\ all_participants[p].display_name = "Sarath"
              /\ all_participants[p].id # NoId
              /\ all_clusters[1].target_participant_id = all_participants[p].id
              /\ thanks_strategy(all_clusters[1], all_participants, messages) = p
        /\ \E k \in DOMAIN identities :
              /\ identities[k].canonical_name = "Sarath"
              /\ identities[k].confidence >=
                     config_get(confidence_config, "base_score", DefaultBaseScore)
                     + config_get(confidence_config, "thanks_bonus", DefaultThanksBonus)

\* --------------------------------------- specification: a batch of files
\* Most files of a batch.
MaxFiles == 3

\* A chat with three wishes and a thank-you, and a chat without any wish.
WishLines ==
    <<Line(8, 1, 9, "AM", "Alice", <<"happy", "birthday">>),
      Line(8, 1, 10, "AM", "Bob", <<"happy", "birthday">>),
      Line(8, 1, 11, "AM", "Charlie", <<"happy", "birthday">>),
      Line(8, 1, 1, "PM", "Sarath", <<"thank", "you", ":tada:">>)>>

QuietLines ==
    <<Line(8, 1, 9, "AM", "Alice", <<"thanks">>),
      Line(8, 1, 10, "AM", "Bob", <<"party">>)>>

\* The files of the batches.  fails_at names the step of the loop body at
\* which an exception is raised for the file: "parse" is a file parse_file
\* cannot open, "analyze" a failure of the storage or of analyze_messages
\* after the parse, "group" a failure inside cluster_wishes_by_date, "infer"
\* one inside the loop over the clusters; "none" is a file without failure.
FileOptions ==
    {[lines |-> WishLines, fails_at |-> "none"],
     [lines |-> QuietLines, fails_at |-> "none"],
     [lines |-> WishLines, fails_at |-> "parse"],
     [lines |-> WishLines, fails_at |-> "analyze"],
     [lines |-> WishLines, fails_at |-> "group"],
     [lines |-> WishLines, fails_at |-> "infer"]}

BatchInit ==
    /\ WishIdle
    /\ ChatIdle
    /\ LoopIdle
    /\ DriverIdle
    /\ stage = "next_file"
    /\ identities = << >>
    /\ confidence_config = << >>
    /\ score_index = 1
    /\ scored_identities = << >>
    /\ transcript = [file_name |-> <<"chat">>, lines |-> << >>, save_participants |-> FALSE]
    /\ explanations = << >>
    /\ uploaded_files \in UNION {[1..n -> FileOptions] : n \in 1..MaxFiles}
    /\ file_index = 1
    /\ processed_files = << >>
    /\ LLMIdle
    /\ ProgressIdle

\* The top of the loop over the files: the next file is taken up.  The chat
\* of the file gets an id of its own from the storage.
StartFile ==
    /\ stage = "next_file"
    /\ file_index <= Len(uploaded_files)
    /\ transcript' = [file_name |-> <<"chat">>, lines |-> uploaded_files[file_index].lines,
                      save_participants |-> FALSE]
    /\ chat_id' = file_index
    /\ stage' = "parse"
    /\ UNCHANGED <<wishVars, chat_type, messages, participants, wish_messages, clustering_config,
                   loopVars, driverVars, identities, confidence_config, score_index,
                   scored_identities, sideVars>>

\* An exception is raised for the current file at the current step.
FailsHere == stage = uploaded_files[file_index].fails_at

\* A step of the try block of the loop body that runs without exception.
ProcessFile ==
    /\ stage \in {"parse", "analyze", "group", "window", "infer"}
    /\ ~FailsHere
    /\ (ParseFile \/ AnalyzeMessages \/ ClusterNext \/ TargetNext)

abort_batch(index, total_files) == total_files + 1

\* The file the loop takes up after the except clause has recorded an error.
next_after_error(index, total_files) == index + 1

\* The except clause of the loop body: the error is recorded for the file.
FileError ==
    /\ stage \in {"parse", "analyze", "group", "window", "infer"}
    /\ FailsHere
    /\ processed_files' = Append(processed_files,
           [filename |-> file_index, status |-> "error", error |-> stage])
    /\ file_index' = next_after_error(file_index, Len(uploaded_files))
    /\ stage' = "next_file"
    /\ UNCHANGED <<wishVars, chatVars, loopVars, driverVars, identities, confidence_config,
                   score_index, scored_identities, transcript, explanations, progressVars, uploaded_files,
                   llmVars>>

\* The end of the try block: the success of the file is recorded.
FileSuccess ==
    /\ stage = "collected"
    /\ processed_files' = Append(processed_files,
           [filename |-> file_index, status |-> "success",
            clusters |-> Len(SelectSeq(all_clusters, LAMBDA c : c.chat_id = chat_id)),
            participants |-> Len(participants)])
    /\ file_index' = file_index + 1
    /\ stage' = "next_file"
    /\ UNCHANGED <<wishVars, chatVars, loopVars, driverVars, identities, confidence_config,
                   score_index, scored_identities, transcript, explanations, progressVars, uploaded_files,
                   llmVars>>

\* After the loop: without any cluster the session ends as failed, otherwise
\* the driver goes on to the summaries.
FinishBatch ==
    /\ stage = "next_file"
    /\ file_index > Len(uploaded_files)
    /\ stage' = IF Len(all_clusters) = 0 THEN "no_wishes" ELSE "summaries"
    /\ UNCHANGED <<wishVars, chatVars, loopVars, driverVars, scoreVars>>

BatchNext == StartFile \/ ProcessFile \/ FileError \/ FileSuccess \/ FinishBatch

BatchSpec == BatchInit /\ [][BatchNext]_vars

\* The loop over the files has ended.
BatchDone == stage \in {"no_wishes", "summaries"}

\* The clusters of the batch result that come from the file of index f.
ClustersOfFile(f) == SelectSeq(all_clusters, LAMBDA c : c.chat_id = f)

IsPrefix(s, t) == Len(s) <= Len(t) /\ SubSeq(t, 1, Len(s)) = s

\* C13: a failure while parsing or analysing one file is recorded as an error
\* for that file only.  When the batch ends every file has its outcome, an
\* error exactly for the files that failed; every file without failure that
\* holds wishes has its clusters in the batch result, whatever failed before
\* or after it, and no cluster of a failed file is in the result.  Whenever
\* a file reaches the end of the inference loop its clusters are appended to
\* the result, and no step ever takes a cluster out of the result.
C13_FailureIsolated ==
    /\ [](BatchDone =>
            /\ Len(processed_files) = Len(uploaded_files)
            /\ \A f \in DOMAIN uploaded_files :
                  /\ processed_files[f].filename = f
                  /\ (processed_files[f].status = "error")
                         <=> (uploaded_files[f].fails_at # "none")
                  /\ uploaded_files[f].fails_at # "none" => Len(ClustersOfFile(f)) = 0
                  /\ (uploaded_files[f].fails_at = "none" /\ uploaded_files[f].lines = WishLines)
                         => /\ Len(ClustersOfFile(f)) = 1
                            /\ processed_files[f].clusters = 1
                            /\ ClustersOfFile(f)[1].unique_wishers = 4)
    /\ [][/\ IsPrefix(all_clusters, all_clusters')
          /\ (stage = "infer" /\ stage' = "collected")
                 => all_clusters' = all_clusters \o clusters]_vars

\* A batch of three files has ended whose second file failed after its
\* clusters were built: the clusters of the first and of the third file are
\* in the result.
C13_Witness ==
    /\ BatchDone
    /\ Len(uploaded_files) = 3
    /\ uploaded_files[2].fails_at = "infer"
    /\ processed_files[2].status = "error"
    /\ Len(ClustersOfFile(1)) = 1
    /\ Len(ClustersOfFile(3)) = 1
    /\ Len(all_clusters) = 2

\* ----------------------------------- specification: the AI collaborator
\* Most messages of the cluster handed to analyze_birthday_cluster.
MaxLLMMessages == 2

LLMTexts ==
    {<<"happy", "birthday", "Ann">>,
     <<"Happy", "birthday">>,
     <<"call", "+15551234567">>,
     <<"hbd", "+15559876543">>}

\* A JSON object a well-behaved collaborator replies with.
PlainObject ==
    [date |-> json_str("08-01"), person |-> json_str("Ann"), phone_number |-> json_null,
     confidence |-> json_int(85), year |-> json_null, analysis |-> json_str("thanked by Ann")]

\* The objects of the replies: the plain one, and the plain one with one of
\* its values replaced, or with all of them null.
ReplyObjects ==
    {PlainObject,
     [date |-> json_null, person |-> json_null, phone_number |-> json_null,
      confidence |-> json_null, year |-> json_null, analysis |-> json_null]}
    \cup {[PlainObject EXCEPT !.date = v] : v \in {json_str("8-1"), json_str("8/1"),
                                                  json_str("13-45"), json_int(801)}}
    \cup {[PlainObject EXCEPT !.person = v] : v \in {json_str("Unknown"), json_str(""), json_int(7)}}
    \cup {[PlainObject EXCEPT !.phone_number = v] :
             v \in {json_str("+15551234567"), json_str("none"), json_str("call"), json_int(7)}}
    \cup {[PlainObject EXCEPT !.confidence = v] :
             v \in {json_int(150), json_int(-5), json_int(0), json_str("85"), json_str("high")}}
    \cup {[PlainObject EXCEPT !.year = v] :
             v \in {json_int(1990), json_int(2030), json_str("1990"), json_str("none")}}

\* What the next call of the collaborator does.
Replies ==
    {[kind |-> k, object |-> PlainObject] : k \in {"raises", "no_json", "bad_json"}}
    \cup {[kind |-> "object", object |-> o] : o \in ReplyObjects}

\* The clusters come from the batch driver: all_clusters holds one cluster
\* and messages the messages of its wishes.
LLMInit ==
    /\ WishIdle
    /\ chat_id = 1
    /\ chat_type = "group"
    /\ participants = << >>
    /\ \E n \in 0..MaxLLMMessages : \E texts \in [1..n -> LLMTexts] :
          /\ messages = [i \in 1..n |->
                            [id |-> i, timestamp |-> [day |-> day_number(2024, 8, 1), hour |-> 9],
                             sender |-> SenderOf(i), text |-> texts[i], message_type |-> "normal"]]
          /\ wish_messages = [i \in 1..n |->
                                 [message_id |-> i, wish_score |-> StrongWeight,
                                  mentioned_names |-> << >>, is_thanks |-> FALSE,
                                  modifiers |-> {}]]
    /\ clustering_config = [window_hours |-> DefaultWindowHours,
                            min_wish_score |-> DefaultMinWishScore]
    /\ LoopIdle
    /\ infer_index = 1
    /\ all_clusters = <<WishCluster(chat_id, day_number(2024, 8, 1), messages, wish_messages)>>
    /\ all_participants = << >>
    /\ stage = "summaries"
    /\ identities = << >>
    /\ confidence_config = << >>
    /\ score_index = 1
    /\ scored_identities = << >>
    /\ transcript = [file_name |-> <<"chat">>, lines |-> << >>, save_participants |-> FALSE]
    /\ explanations = << >>
    /\ uploaded_files = << >>
    /\ file_index = 1
    /\ processed_files = << >>
    /\ llm_client \in [available : BOOLEAN, reply : Replies,
                       max_messages_per_request : {DefaultMaxMessages, 1, 0},
                       now : {1, 2}, last_request_time : {0}]
    /\ llm_result = << >>
    /\ ProgressIdle

\* The messages of the wishes of a cluster, as the driver collects them.
cluster_messages(cluster, msgs) ==
    SelectSeq(msgs, LAMBDA msg :
        \E w \in DOMAIN cluster.wish_messages : cluster.wish_messages[w].message_id = msg.id)

\* The driver hands the cluster to analyze_birthday_cluster.  _call_llm notes
\* the time of the request before it calls the collaborator.
AnalyzeCluster ==
    /\ stage = "summaries"
    /\ Len(all_clusters) > 0
    /\ llm_result = << >>
    /\ LET cluster == all_clusters[1]
           msgs == cluster_messages(cluster, messages)
       IN /\ \E result \in analyze_birthday_cluster(llm_client, cluster, msgs) :
                llm_result' = <<result>>
          /\ llm_client' =
                 IF /\ llm_client.available
                    /\ \E selected \in _select_messages_for_analysis(
                                          msgs, llm_client.max_messages_per_request) :
                           Len(selected) > 0
                 THEN [llm_client EXCEPT !.last_request_time = llm_client.now]
                 ELSE llm_client
    /\ stage' = "summarised"
    /\ UNCHANGED <<wishVars, chatVars, loopVars, driverVars, identities, confidence_config,
                   score_index, scored_identities, transcript, explanations, batchVars,
                   progressVars>>

LLMNext == AnalyzeCluster

LLMSpec == LLMInit /\ [][LLMNext]_vars

\* The collaborator failed the call: it is unavailable, no message was
\* selected, the call raised, or the reply holds no JSON object or an object
\* whose person or phone_number is not a string.
CollaboratorFailed ==
    \/ ~llm_client.available
    \/ Len(cluster_messages(all_clusters[1], messages)) = 0
    \/ llm_client.max_messages_per_request = 0
    \/ llm_client.reply.kind # "object"
    \/ llm_client.reply.object.person.type = "int"
    \/ llm_client.reply.object.phone_number.type = "int"

\* C15: analyze_birthday_cluster always returns a result.  When the
\* collaborator failed, the result is the local fallback (source 'fallback',
\* confidence 40) computed from the cluster and its messages alone; otherwise
\* it is the validated reply (source 'llm'); every returned confidence is in
\* 0..100.
C15_FallbackOnFailure ==
    stage = "summarised" =>
        /\ Len(llm_result) = 1
        /\ llm_result[1].confidence >= 0
        /\ llm_result[1].confidence <= 100
        /\ llm_result[1].source \in {"llm", "fallback"}
        /\ llm_result[1].source = "fallback" <=> CollaboratorFailed
        /\ llm_result[1].source = "fallback" =>
              /\ llm_result[1].confidence = FallbackConfidence
              /\ llm_result[1] =
                     _fallback_analysis(all_clusters[1],
                                        cluster_messages(all_clusters[1], messages),
                                        llm_client.now)

\* An available collaborator replied with an object whose phone_number is a
\* number: the fallback was returned, with the person and the phone number
\* read from the messages.
C15_Witness ==
    /\ stage = "summarised"
    /\ llm_client.available
    /\ llm_client.reply.kind = "object"
    /\ llm_client.reply.object.phone_number.type = "int"
    /\ llm_client.max_messages_per_request = 1
    /\ Len(messages) = 2
    /\ llm_result[1].source = "fallback"
    /\ llm_result[1].person = "Ann"
    /\ llm_result[1].phone_number = "+15551234567"

\* ------------------------------------------ specification: parsing a file
\* Most lines of an export file of a parsing run.
MaxParseLines == 3

\* A line that no header pattern matches.
Plain(txt) ==
    [header |-> FALSE, month |-> 0, day |-> 0, year |-> 0, hour |-> 0, ampm |-> "",
     sender |-> "", text |-> txt]

\* The lines of the files of the parsing runs: messages of three senders, the
\* creation of a group, a header dated 8/24/24 and a line without header.
ParseLineOptions ==
    {Line(8, 1, 9, "AM", "Ann", <<"hi">>),
     Line(8, 1, 9, "AM", "Bob", <<"hi">>),
     Line(8, 1, 9, "AM", "Cy", <<"hi">>),
     Line(8, 1, 9, "AM", "Ann", <<"created", "group", "fam">>),
     Line(8, 24, 9, "AM", "Bob", <<"yo">>),
     Plain(<<"more">>)}

FileNames == {<<"chat">>, <<"Family", "Group">>}

ParseInit ==
    /\ WishIdle
    /\ stage = "parse"
    /\ ChatIdle
    /\ LoopIdle
    /\ DriverIdle
    /\ identities = << >>
    /\ confidence_config = << >>
    /\ score_index = 1
    /\ scored_identities = << >>
    /\ transcript \in [file_name : FileNames,
                       lines : UNION {[1..n -> ParseLineOptions] : n \in 0..MaxParseLines},
                       save_participants : {FALSE}]
    /\ SideIdle

ParseNext == ParseFile

ParseSpec == ParseInit /\ [][ParseNext]_vars

\* parse_file has returned.
Parsed == stage = "analyze"

\* The file name carries a group hint; a system message of the file tells of
\* the creation of a group; the senders of the messages that are no system
\* messages.
NameHint == \E i \in DOMAIN transcript.file_name : transcript.file_name[i] \in {"Group", "group"}

GroupCreated ==
    \E i \in DOMAIN messages :
        /\ messages[i].message_type = "system"
        /\ \E k \in DOMAIN messages[i].text :
              messages[i].text[k] = "created" /\ k + 1 <= Len(messages[i].text)
              /\ messages[i].text[k + 1] = "group"

DistinctSenders == {messages[i].sender : i \in {j \in DOMAIN messages : messages[j].message_type # "system"}}

\* C21 as the specification states it: a group hint in the file name forces
\* GROUP; otherwise a group-creation system message forces GROUP; otherwise
\* more than 2 distinct senders give GROUP and exactly 2 give DIRECT.  A chat
\* with a hint or a creation message is GROUP whatever its number of senders.
C21_Original ==
    Parsed =>
        /\ (NameHint \/ GroupCreated) => chat_type = "group"
        /\ (~NameHint /\ ~GroupCreated /\ Cardinality(DistinctSenders) > 2) => chat_type = "group"
        /\ (~NameHint /\ ~GroupCreated /\ Cardinality(DistinctSenders) = 2) => chat_type = "direct"

\* What _extract_chat_info returns: the number of senders decides whenever it
\* is 2 or more, and the hint and the creation message only below 2.
C21_SenderCountDecides ==
    Parsed =>
        /\ Cardinality(DistinctSenders) > 2 => chat_type = "group"
        /\ Cardinality(DistinctSenders) = 2 => chat_type = "direct"
        /\ Cardinality(DistinctSenders) < 2 =>
               chat_type = IF NameHint \/ GroupCreated THEN "group" ELSE "unknown"


\* The lines of the file that parsed as headers, and the k-th of them.
HeaderLines == {i \in DOMAIN transcript.lines : Len(_parse_single_message(transcript.lines[i])) > 0}

NthHeader(k) == CHOOSE i \in HeaderLines : Cardinality({j \in HeaderLines : j <= i}) = k

\* The line as it is written in the file, after a newline.
AfterNewline(line) ==
    <<LineBreak>> \o (IF line.header
                      THEN <<"<date>", "<time>", "-", line.sender>> \o line.text
                      ELSE line.text)

\* The lines from..to of the file, each after a newline.
RECURSIVE Continuation(_, _)
Continuation(from, to) ==
    IF from > to THEN << >>
    ELSE AfterNewline(transcript.lines[from]) \o Continuation(from + 1, to)

\* The last line before the header after the k-th one, the last line of the
\* file when the k-th header is the last.
LastLineOf(k) ==
    IF k < Cardinality(HeaderLines) THEN NthHeader(k + 1) - 1 ELSE Len(transcript.lines)

\* C22: the messages _parse_messages returns correspond one to one, in the
\* order of the file, to the lines that parsed as headers; every line that
\* gave no message is appended after a newline to the text of the message
\* opened last before it, and is in no message when none was opened yet.
C22_ContinuationsAppended ==
    Parsed =>
        /\ Len(messages) = Cardinality(HeaderLines)
        /\ \A k \in DOMAIN messages :
              /\ messages[k].sender = transcript.lines[NthHeader(k)].sender
              /\ messages[k].timestamp = _parse_datetime_flexible(transcript.lines[NthHeader(k)])[1]
              /\ messages[k].text = transcript.lines[NthHeader(k)].text
                                        \o Continuation(NthHeader(k) + 1, LastLineOf(k))

\* A file of three lines has been parsed: a line without header before any
\* message, which is dropped, a header, and a line without header, which is
\* appended to the message of the header.
C22_Witness ==
    /\ Parsed
    /\ Len(transcript.lines) = 3
    /\ ~transcript.lines[1].header
    /\ HeaderLines = {2}
    /\ ~transcript.lines[3].header
    /\ Len(messages) = 1
    /\ messages[1].text = transcript.lines[2].text \o <<LineBreak>> \o transcript.lines[3].text


\* -------------------------------------- specification: the date of a header
\* The two-digit years of the header lines of the date runs.
HeaderYears == {5, 12, 24, 30, 31}

\* A file of one header line "<m>/<d>/<yy>, 9:00 AM - Ann: hi", for every
\* month, every day number up to 31 and the years above.
HeaderInit ==
    /\ WishIdle
    /\ stage = "parse"
    /\ ChatIdle
    /\ LoopIdle
    /\ DriverIdle
    /\ identities = << >>
    /\ confidence_config = << >>
    /\ score_index = 1
    /\ scored_identities = << >>
    /\ \E m \in 1..12, d \in 1..31, yy \in HeaderYears :
          transcript = [file_name |-> <<"chat">>,
                        lines |-> <<[header |-> TRUE, month |-> m, day |-> d, year |-> yy,
                                     hour |-> 9, ampm |-> "AM", sender |-> "Ann",
                                     text |-> <<"hi">>]>>,
                        save_participants |-> FALSE]
    /\ SideIdle

HeaderNext == ParseFile

HeaderSpec == HeaderInit /\ [][HeaderNext]_vars

\* The header line of the file, and the year its two digits stand for.
HeaderLine == transcript.lines[1]

CenturyYear == IF HeaderLine.year <= 30 THEN 2000 + HeaderLine.year ELSE 1900 + HeaderLine.year

ValidHeaderDate ==
    /\ HeaderLine.day <= (IF HeaderLine.month = 2
                          THEN (IF CenturyYear % 4 = 0 THEN 29 ELSE 28)
                          ELSE IF HeaderLine.month \in {4, 6, 9, 11} THEN 30 ELSE 31)

\* The line was recognised as a header and its timestamp is the date written.
RecognisedAsWritten ==
    /\ Len(messages) = 1
    /\ year_of(messages[1].timestamp.day) = CenturyYear
    /\ month_day_of(messages[1].timestamp.day) = <<HeaderLine.month, HeaderLine.day>>

\* C23 as the specification states it: for every header date written with a
\* two-digit year yy and a valid day and month, the line is recognised as a
\* message header and its timestamp has the year 2000+yy when yy <= 30 and
\* 1900+yy otherwise, with the day and the month as written.
C23_Original == (Parsed /\ ValidHeaderDate) => RecognisedAsWritten

\* What the parser does: the date is read as written unless its day is
\* written with the two digits of the year, and then the line gives no
\* message.
C23_UnlessDayIsYear ==
    (Parsed /\ ValidHeaderDate) =>
        IF HeaderLine.day = HeaderLine.year /\ HeaderLine.day >= 10
        THEN messages = << >>
        ELSE RecognisedAsWritten


\* --------------------------------------- specification: the identity keys
\* Most clusters of an identity key run.
MaxKeyClusters == 3

\* The participants of the identity key runs, one per chat except in the last
\* list.  A display name with two phones in other chats; a display name with
\* one phone in other chats; participants without a display name.
KeyParticipants ==
    {<<[id |-> 1, chat_id |-> 1, display_name |-> "Ann", phone |-> None],
       [id |-> 2, chat_id |-> 2, display_name |-> "Ann", phone |-> "+15551234567"],
       [id |-> 3, chat_id |-> 3, display_name |-> "Ann", phone |-> "+15559876543"],
       [id |-> 4, chat_id |-> 4, display_name |-> "Ann", phone |-> None]>>,
     <<[id |-> 1, chat_id |-> 1, display_name |-> "Ann", phone |-> None],
       [id |-> 2, chat_id |-> 2, display_name |-> "Ann", phone |-> "+15551234567"],
       [id |-> 3, chat_id |-> 3, display_name |-> "Annie", phone |-> "+15551234567"],
       [id |-> 4, chat_id |-> 4, display_name |-> "Ann", phone |-> None]>>,
     <<[id |-> 1, chat_id |-> 1, display_name |-> None, phone |-> None],
       [id |-> 2, chat_id |-> 1, display_name |-> None, phone |-> None],
       [id |-> 3, chat_id |-> 2, display_name |-> None, phone |-> "+15551234567"],
       [id |-> 4, chat_id |-> 2, display_name |-> "Bob", phone |-> None]>>}

\* 1, 2, 4, ...: the unique wishers of the cluster of index i, so that the sum
\* over a set of clusters tells the set.
RECURSIVE WishersOfCluster(_)
WishersOfCluster(i) == IF i = 1 THEN 1 ELSE 2 * WishersOfCluster(i - 1)

\* The clusters of the processed files, each with a target among the
\* participants, all dated 2024-08-01.
KeyInit ==
    /\ WishIdle
    /\ ChatIdle
    /\ LoopIdle
    /\ stage = "collected"
    /\ infer_index = 1
    /\ all_participants \in KeyParticipants
    /\ \E n \in 1..MaxKeyClusters : \E target \in [1..n -> 1..4] :
          all_clusters = [i \in 1..n |->
                             [chat_id |-> all_participants[target[i]].chat_id,
                              date |-> day_number(2024, 8, 1),
                              target_participant_id |-> target[i],
                              wish_messages |-> << >>,
                              unique_wishers |-> WishersOfCluster(i),
                              total_wish_score |-> StrongWeight * WishersOfCluster(i),
                              has_thanks |-> FALSE,
                              has_explicit_mentions |-> FALSE]]
    /\ ScoreIdle

KeyNext == ResolveIdentities

KeySpec == KeyInit /\ [][KeyNext]_vars

\* The participants that carry the display name, the chats they are in and
\* the phones they have.
NamedAs(name) == {i \in DOMAIN all_participants : all_participants[i].display_name = name}

NameCollision(name) ==
    /\ Cardinality({all_participants[i].chat_id : i \in NamedAs(name)}) >= 2
    /\ Cardinality({all_participants[i].phone : i \in NamedAs(name)} \ {None}) > 1

\* The identity key of the participant of index p, as a tuple.
KeyOf(p) ==
    LET participant == all_participants[p]
    IN IF participant.phone # None THEN <<"phone", participant.phone, 0, 0>>
       ELSE IF participant.display_name # None
       THEN IF NameCollision(participant.display_name)
            THEN <<"name_chat", participant.display_name, participant.chat_id, 0>>
            ELSE <<"name", participant.display_name, 0, 0>>
       ELSE <<"participant", "", participant.chat_id, participant.id>>

\* The clusters whose target has the same key as the target of cluster i, and
\* the sum of their unique wishers.
SameKeyClusters(i) ==
    {j \in DOMAIN all_clusters :
        KeyOf(all_clusters[j].target_participant_id) = KeyOf(all_clusters[i].target_participant_id)}

RECURSIVE SumOfWishers(_)
SumOfWishers(S) ==
    IF S = {} THEN 0
    ELSE LET j == CHOOSE x \in S : TRUE IN WishersOfCluster(j) + SumOfWishers(S \ {j})

\* C24: the identity key of a target participant is its phone when it has
\* one; otherwise its display name, with the chat id when the display name
\* occurs in two or more chats with more than one phone; otherwise the chat
\* and the id of the participant.  Two observations are merged into one
\* Identity iff their keys are equal: there is one Identity for each key, and
\* its wishers are those of the clusters of that key.
C24_MergedIffSameKey ==
    stage = "resolved" =>
        /\ Len(identities) = Cardinality({SameKeyClusters(i) : i \in DOMAIN all_clusters})
        /\ {identities[k].total_wishers : k \in DOMAIN identities}
               = {SumOfWishers(SameKeyClusters(i)) : i \in DOMAIN all_clusters}

\* Two participants named Ann without a phone, in two chats, and the name
\* Ann with two phones in two other chats: the clusters of the two are
\* resolved to two identities; a third cluster is merged with the first.
C24_Witness ==
    /\ stage = "resolved"
    /\ Len(all_clusters) = 3
    /\ all_clusters[1].target_participant_id = 1
    /\ all_clusters[2].target_participant_id = 4
    /\ all_clusters[3].target_participant_id = 1
    /\ NameCollision("Ann")
    /\ Len(identities) = 2
    /\ {identities[k].total_wishers : k \in DOMAIN identities} = {5, 2}


\* ------------------------------------- specification: the progress tracker
\* The background thread of process_files_background runs the operations of
\* the tracker one after the other; each operation holds the lock of the
\* tracker and writes the fields of the session dict one by one.  A progress
\* stream takes the lock in get_progress only: get_progress returns the dict
\* itself, and the stream reads its fields afterwards without the lock.
\*
\* Most calls of update_progress of a run.
MaxUpdates == 2

\* total_steps of a session: three steps for the one file of the upload.
TotalSteps == 3

\* The task of a session that has just started ("Starting..."); the task of
\* the update of step n is n.
StartingTask == 0

\* min(100, (step / total_steps) * 100), as a multiple of 1 / total_steps.
percent_of(step, total_steps) == Min(100 * total_steps, 100 * step)

\* A status that is left as it was.
status_running(success) == "running"

\* 'completed' if success else 'error'
status_of(success) == IF success THEN "completed" ELSE "error"

FinalStatuses == {"completed", "error"}

\* The dict start_session stores.  It has no 'percent' yet: every reader
\* takes 0 for it.
start_session(total_steps) ==
    [total_steps |-> total_steps, current_step |-> 0, status |-> "running",
     current_task |-> StartingTask, details |-> 0, percent |-> 0, error |-> None]

\* The fields of a session a progress stream sends.
Snapshot(session) ==
    [percent |-> session.percent, current_task |-> session.current_task,
     status |-> session.status, step |-> session.current_step, details |-> session.details]

\* The lock of the tracker is held by the background thread.
LockHeld == worker.pc \in {"update", "complete"}

\* What the tracker and the stream leave alone.
pipelineVars ==
    <<wishVars, stage, chatVars, loopVars, driverVars, identities, confidence_config,
      score_index, scored_identities, transcript, explanations, batchVars, llmVars>>

ProgressInit ==
    /\ WishIdle
    /\ stage = "upload"
    /\ ChatIdle
    /\ LoopIdle
    /\ DriverIdle
    /\ ScoreIdle

\* upload_files issues the session id, starts the background thread and
\* redirects to the processing page.
UploadFiles ==
    /\ worker.pc = "idle"
    /\ \E n \in 1..MaxUpdates : worker' = [worker EXCEPT !.pc = "start_session", !.updates = n]
    /\ UNCHANGED <<sessions, stream, whole_states, pipelineVars>>

\* progress_tracker.start_session, the first statement of the thread.
StartSession ==
    /\ worker.pc = "start_session"
    /\ sessions' = <<start_session(TotalSteps)>>
    /\ whole_states' = whole_states \cup {Snapshot(sessions'[1])}
    /\ worker' = [worker EXCEPT !.pc = "between"]
    /\ UNCHANGED <<stream, pipelineVars>>

\* update_progress takes the lock and writes current_step.
WriteStep ==
    /\ worker.pc = "between"
    /\ worker.done < worker.updates
    /\ \E with_details \in BOOLEAN :
          worker' = [worker EXCEPT !.pc = "update", !.field = 1, !.details = with_details]
    /\ sessions' = [sessions EXCEPT ![1].current_step = worker.done + 1]
    /\ UNCHANGED <<stream, whole_states, pipelineVars>>

WriteTask ==
    /\ worker.pc = "update"
    /\ worker.field = 1
    /\ sessions' = [sessions EXCEPT ![1].current_task = worker.done + 1]
    /\ worker' = [worker EXCEPT !.field = 2]
    /\ UNCHANGED <<stream, whole_states, pipelineVars>>

\* session['details'].append(...) when the call carries details.
AppendDetails ==
    /\ worker.pc = "update"
    /\ worker.field = 2
    /\ sessions' = [sessions EXCEPT ![1].details = IF worker.details THEN @ + 1 ELSE @]
    /\ worker' = [worker EXCEPT !.field = 3]
    /\ UNCHANGED <<stream, whole_states, pipelineVars>>

\* update_progress writes percent and releases the lock.
WritePercent ==
    /\ worker.pc = "update"
    /\ worker.field = 3
    /\ sessions' = [sessions EXCEPT
                       ![1].percent = percent_of(sessions[1].current_step, sessions[1].total_steps)]
    /\ whole_states' = whole_states \cup {Snapshot(sessions'[1])}
    /\ worker' = [worker EXCEPT !.pc = "between", !.field = 0, !.done = @ + 1]
    /\ UNCHANGED <<stream, pipelineVars>>

\* complete_session takes the lock and writes status: with success after the
\* last update; without success when no cluster was found and when an
\* exception reached the handler of process_files_background.
WriteStatus ==
    /\ worker.pc = "between"
    /\ \E success \in BOOLEAN :
          /\ success => worker.done = worker.updates
          /\ worker' = [worker EXCEPT !.pc = "complete", !.field = 1, !.success = success]
          /\ sessions' = [sessions EXCEPT ![1].status = status_of(success)]
    /\ UNCHANGED <<stream, whole_states, pipelineVars>>

WriteFinalPercent ==
    /\ worker.pc = "complete"
    /\ worker.field = 1
    /\ sessions' = [sessions EXCEPT
                       ![1].percent = IF worker.success THEN 100 * sessions[1].total_steps ELSE @]
    /\ worker' = [worker EXCEPT !.field = 2]
    /\ UNCHANGED <<stream, whole_states, pipelineVars>>

\* complete_session writes error and releases the lock; the thread ends.
WriteError ==
    /\ worker.pc = "complete"
    /\ worker.field = 2
    /\ sessions' = [sessions EXCEPT ![1].error = IF worker.success THEN None ELSE "error"]
    /\ whole_states' = whole_states \cup {Snapshot(sessions'[1])}
    /\ worker' = [worker EXCEPT !.pc = "finished", !.field = 0]
    /\ UNCHANGED <<stream, pipelineVars>>

\* The page of the redirect opens the stream of the issued id.
OpenStream ==
    /\ stream.pc = "unopened"
    /\ worker.pc # "idle"
    /\ stream' = [stream EXCEPT !.pc = "get"]
    /\ UNCHANGED <<sessions, worker, whole_states, pipelineVars>>

\* progress_tracker.get_progress, under the lock: the dict of the session, or
\* None and the stream ends with 'Session not found'.
GetProgress ==
    /\ stream.pc = "get"
    /\ ~LockHeld
    /\ stream' = [stream EXCEPT !.pc = IF sessions = << >> THEN "not_found" ELSE "read_percent"]
    /\ UNCHANGED <<sessions, worker, whole_states, pipelineVars>>

\* The fields the stream reads of the dict, in the order of generate, and
\* where it goes after each.
StreamReads ==
    [read_percent |-> "read_task", read_task |-> "read_status", read_status |-> "read_step",
     read_step |-> "read_details", read_details |-> "test"]

\* The stream reads one field of the dict get_progress returned; the lock is
\* not taken.  After the last field it sends the progress data.
ReadField ==
    /\ stream.pc \in DOMAIN StreamReads
    /\ stream' = [stream EXCEPT
                     !.pc = StreamReads[stream.pc],
                     !.percent = IF stream.pc = "read_percent" THEN sessions[1].percent ELSE @,
                     !.current_task = IF stream.pc = "read_task" THEN sessions[1].current_task ELSE @,
                     !.status = IF stream.pc = "read_status" THEN sessions[1].status ELSE @,
                     !.step = IF stream.pc = "read_step" THEN sessions[1].current_step ELSE @,
                     !.details = IF stream.pc = "read_details" THEN sessions[1].details ELSE @]
    /\ UNCHANGED <<sessions, worker, whole_states, pipelineVars>>

\* if progress['status'] in ['completed', 'error']: break; otherwise the
\* stream sleeps and reads again.
TestStatus ==
    /\ stream.pc = "test"
    /\ stream' = [stream EXCEPT !.pc = IF sessions[1].status \in FinalStatuses
                                       THEN "closed" ELSE "get"]
    /\ UNCHANGED <<sessions, worker, whole_states, pipelineVars>>

WorkerNext ==
    \/ StartSession
    \/ WriteStep
    \/ WriteTask
    \/ AppendDetails
    \/ WritePercent
    \/ WriteStatus
    \/ WriteFinalPercent
    \/ WriteError

StreamNext ==
    \/ OpenStream
    \/ GetProgress
    \/ ReadField
    \/ TestStatus

ProgressNext == UploadFiles \/ WorkerNext \/ StreamNext

ProgressSpec == ProgressInit /\ [][ProgressNext]_vars

\* The values the stream has read in its last round.
Observed ==
    [percent |-> stream.percent, current_task |-> stream.current_task,
     status |-> stream.status, step |-> stream.step, details |-> stream.details]

\* C26 as the specification states it: the values a progress stream has read
\* of a session (status, current_step, percent, details, current task) are
\* those of a state of the session between two whole tracker operations.
C26_Original == stream.pc = "test" => Observed \in whole_states

\* C29 as the specification states it: a stream opened for an issued session
\* id never ends with 'Session not found'.
C29_Original == stream.pc # "not_found"


\* The scheduler lets the background thread and the generator of the stream
\* run: a step that stays possible is taken.
LiveProgressSpec == ProgressSpec /\ WF_vars(WorkerNext) /\ WF_vars(StreamNext)

SessionStarted == sessions # << >>

SessionFinal == SessionStarted /\ sessions[1].status \in FinalStatuses

StreamEnded == stream.pc \in {"closed", "not_found"}

\* C30: a session that was started reaches the status 'completed' or 'error',
\* a final status is never left for 'running' again, and a progress stream
\* that was opened terminates.
C30_SessionsEnd ==
    /\ SessionStarted ~> SessionFinal
    /\ [][SessionFinal => SessionFinal']_vars
    /\ (stream.pc # "unopened") ~> StreamEnded

\* An exception before the last update has ended the session with 'error',
\* and the stream that read it has closed.
C30_Witness ==
    /\ SessionFinal
    /\ sessions[1].status = "error"
    /\ worker.pc = "finished"
    /\ worker.done < worker.updates
    /\ stream.pc = "closed"


\* -------------------------------- specification: the birthday of an identity
\* Most observations of the identity.
MaxObservations == 4

\* The dates of the clusters observed for one participant.
ObservedDates ==
    {day_number(2023, 2, 28), day_number(2024, 2, 29), day_number(2024, 3, 1),
     day_number(2024, 7, 7)}

BirthdayInit ==
    /\ WishIdle
    /\ ChatIdle
    /\ LoopIdle
    /\ stage = "collected"
    /\ infer_index = 1
    /\ all_participants = ResolveParticipants
    /\ \E n \in 1..MaxObservations :
          \E dates \in [1..n -> ObservedDates] :
              all_clusters = [i \in 1..n |->
                                 [chat_id |-> 1, date |-> dates[i], target_participant_id |-> 1,
                                  wish_messages |-> << >>, unique_wishers |-> 1,
                                  total_wish_score |-> StrongWeight, has_thanks |-> FALSE,
                                  has_explicit_mentions |-> FALSE]]
    /\ ScoreIdle

BirthdayNext == ResolveIdentities

BirthdaySpec == BirthdayInit /\ [][BirthdayNext]_vars

\* How often a pair is observed.
TimesObserved(month_days, md) == Cardinality({i \in DOMAIN month_days : month_days[i] = md})

\* The two most frequent pairs are (2, 28) and (2, 29), or (2, 29) and (3, 1).
LeapPair(month_days) ==
    /\ Cardinality(Range(month_days)) >= 2
    /\ {TopTwo(month_days)[1], TopTwo(month_days)[2]}
           \in {{<<2, 28>>, <<2, 29>>}, {<<2, 29>>, <<3, 1>>}}

\* C28: the birthday of an identity is one of the observed (month, day) pairs;
\* it is (2, 29) when the two most frequent pairs are (2, 28) and (2, 29) or
\* (2, 29) and (3, 1), and a most frequent pair otherwise; the month and the
\* day of every identity are defined.
C28_BirthdayObserved ==
    stage = "resolved" =>
        \A k \in DOMAIN identities :
            LET month_days == MonthDaysOf(k)
                birthday == <<identities[k].birthday_month, identities[k].birthday_day>>
            IN /\ Len(month_days) > 0
               /\ birthday \in Range(month_days)
               /\ IF LeapPair(month_days)
                  THEN birthday = <<2, 29>>
                  ELSE \A md \in Range(month_days) :
                           TimesObserved(month_days, birthday) >= TimesObserved(month_days, md)
               /\ birthday[1] \in 1..12
               /\ birthday[2] \in 1..31

\* An identity seen three times on (2, 28) and once on (2, 29), resolved to
\* (2, 29).
C28_Witness ==
    /\ stage = "resolved"
    /\ \E k \in DOMAIN identities :
          /\ Len(MonthDaysOf(k)) = 4
          /\ TimesObserved(MonthDaysOf(k), <<2, 28>>) = 3
          /\ TimesObserved(MonthDaysOf(k), <<2, 29>>) = 1
          /\ identities[k].birthday_month = 2
          /\ identities[k].birthday_day = 29

====
